---------------------------- MODULE Spec2Model ----------------------------
(***************************************************************************)
(* A model of the pbrt numerics library (Vector, Matrix, Quaternion), the  *)
(* TransformComponent built on it and the Profiler singleton.              *)
(*                                                                         *)
(* Scalars.  f32 and f64 are modelled as decimal floating-point numbers:   *)
(* a finite value is <<"fin", m, e>> and stands for m * 10^e, with m an    *)
(* integer of at most Digits decimal digits and no trailing zero; every    *)
(* operation rounds its exact result to Digits digits (half away from     *)
(* zero).  The special values are PosInf, NegInf and NaN and follow the    *)
(* IEEE-754 rules (x/0 = +-Inf, 0/0 = NaN, NaN compares unequal to all).   *)
(* The exponent range is not bounded and there is no negative zero.        *)
(***************************************************************************)
EXTENDS Integers, Sequences, FiniteSets, TLC

\* Number of decimal digits a scalar's mantissa keeps.
Digits == 3

-----------------------------------------------------------------------------
(* Integer helpers *)

IAbs(n) == IF n < 0 THEN -n ELSE n

ISign(n) == IF n < 0 THEN -1 ELSE IF n > 0 THEN 1 ELSE 0

IMin(a, b) == IF a < b THEN a ELSE b

IMax(a, b) == IF a > b THEN a ELSE b

RECURSIVE Pow10(_)
Pow10(k) == IF k <= 0 THEN 1 ELSE 10 * Pow10(k - 1)

RECURSIVE NumDigits(_)
NumDigits(n) == IF n < 10 THEN 1 ELSE 1 + NumDigits(n \div 10)

RECURSIVE ISqrtSearch(_, _, _)
ISqrtSearch(n, lo, hi) ==
    IF lo >= hi THEN lo
    ELSE LET mid == (lo + hi + 1) \div 2
         IN  IF mid * mid <= n THEN ISqrtSearch(n, mid, hi)
                               ELSE ISqrtSearch(n, lo, mid - 1)

\* floor(sqrt(n)) for 0 <= n < 10^9
ISqrt(n) == ISqrtSearch(n, 0, 31623)

-----------------------------------------------------------------------------
(* Scalars: decimal floating point with IEEE special values *)

NaN == <<"nan", 0, 0>>

PosInf == <<"inf", 1, 0>>

NegInf == <<"inf", -1, 0>>

Zero == <<"fin", 0, 0>>

IsNaN(x) == x[1] = "nan"

IsInf(x) == x[1] = "inf"

IsFinite(x) == x[1] = "fin"

RECURSIVE Strip(_, _)
Strip(m, e) ==
    IF m = 0 THEN Zero
    ELSE IF m % 10 = 0 THEN Strip(m \div 10, e + 1)
    ELSE <<"fin", m, e>>

\* The scalar nearest to m * 10^e: round to Digits digits, canonical form.
Round(m, e) ==
    LET a == IAbs(m)
        d == NumDigits(a)
    IN  IF d <= Digits THEN Strip(m, e)
        ELSE LET k  == d - Digits
                 q  == a \div Pow10(k)
                 r  == a % Pow10(k)
                 up == IF 2 * r >= Pow10(k) THEN q + 1 ELSE q
             IN  Strip(ISign(m) * up, e + k)

\* The scalar of an integer literal.
Num(n) == Round(n, 0)

\* The scalar of a decimal literal m * 10^e.
Dec(m, e) == Round(m, e)

One == Num(1)

Two == Num(2)

\* Position of the leading digit: 10^(Top-1) <= |x| < 10^Top for x # 0.
Top(x) == NumDigits(IAbs(x[2])) + x[3]

FSign(x) == ISign(x[2])

FNeg(x) == IF IsNaN(x) THEN NaN ELSE <<x[1], -x[2], x[3]>>

FAbs(x) == IF IsNaN(x) THEN NaN ELSE <<x[1], IAbs(x[2]), x[3]>>

\* Exact sum of two finite scalars, rounded once.
FinAdd(a, b) ==
    IF a[2] = 0 THEN b
    ELSE IF b[2] = 0 THEN a
    ELSE IF Top(a) - Top(b) > Digits + 1 THEN a
    ELSE IF Top(b) - Top(a) > Digits + 1 THEN b
    ELSE LET e == IMin(a[3], b[3])
         IN  Round(a[2] * Pow10(a[3] - e) + b[2] * Pow10(b[3] - e), e)

FAdd(a, b) ==
    IF IsNaN(a) \/ IsNaN(b) THEN NaN
    ELSE IF IsInf(a) /\ IsInf(b) THEN (IF a[2] = b[2] THEN a ELSE NaN)
    ELSE IF IsInf(a) THEN a
    ELSE IF IsInf(b) THEN b
    ELSE FinAdd(a, b)

FSub(a, b) == FAdd(a, FNeg(b))

FMul(a, b) ==
    IF IsNaN(a) \/ IsNaN(b) THEN NaN
    ELSE IF IsInf(a) \/ IsInf(b)
         THEN (IF a[2] = 0 \/ b[2] = 0 THEN NaN
               ELSE <<"inf", ISign(a[2]) * ISign(b[2]), 0>>)
    ELSE Round(a[2] * b[2], a[3] + b[3])

\* Quotient of two finite non-zero scalars, rounded.
FinDiv(a, b) ==
    LET k == 9 - NumDigits(IAbs(a[2]))
        q == (IAbs(a[2]) * Pow10(k)) \div IAbs(b[2])
    IN  Round(ISign(a[2]) * ISign(b[2]) * q, a[3] - k - b[3])

\* IEEE-754 division: the C++ operator/ on f32 and f64, and _mm_div_ps.
FDiv(a, b) ==
    IF IsNaN(a) \/ IsNaN(b) THEN NaN
    ELSE IF IsInf(a) THEN (IF IsInf(b) THEN NaN
                           ELSE <<"inf", a[2] * (IF b[2] < 0 THEN -1 ELSE 1), 0>>)
    ELSE IF IsInf(b) THEN Zero
    ELSE IF b[2] = 0 THEN (IF a[2] = 0 THEN NaN ELSE <<"inf", ISign(a[2]), 0>>)
    ELSE IF a[2] = 0 THEN Zero
    ELSE FinDiv(a, b)

\* a < b on finite scalars.
FinLt(a, b) ==
    IF ISign(a[2]) # ISign(b[2]) THEN ISign(a[2]) < ISign(b[2])
    ELSE IF a[2] = 0 THEN FALSE
    ELSE IF Top(a) # Top(b)
         THEN (IF a[2] > 0 THEN Top(a) < Top(b) ELSE Top(a) > Top(b))
    ELSE LET e == IMin(a[3], b[3])
         IN  a[2] * Pow10(a[3] - e) < b[2] * Pow10(b[3] - e)

\* The comparison operators of C++ on floating-point values.
FLt(a, b) ==
    IF IsNaN(a) \/ IsNaN(b) THEN FALSE
    ELSE IF IsInf(a) THEN (a[2] < 0 /\ a # b)
    ELSE IF IsInf(b) THEN b[2] > 0
    ELSE FinLt(a, b)

FEq(a, b) == ~IsNaN(a) /\ ~IsNaN(b) /\ a = b

FNe(a, b) == ~FEq(a, b)

FLe(a, b) == FLt(a, b) \/ FEq(a, b)

FGt(a, b) == FLt(b, a)

FGe(a, b) == FLe(b, a)

\* std::sqrt
FSqrt(x) ==
    IF IsNaN(x) THEN NaN
    ELSE IF x[2] < 0 THEN NaN
    ELSE IF IsInf(x) THEN x
    ELSE IF x[2] = 0 THEN Zero
    ELSE LET d  == NumDigits(x[2])
             k0 == 9 - d
             k  == IF (x[3] - k0) % 2 = 0 THEN k0 ELSE k0 - 1
         IN  Round(ISqrt(x[2] * Pow10(k)), (x[3] - k) \div 2)


-----------------------------------------------------------------------------
(* Element types.  Values of an integral type are <<"fin", n, 0>> and their *)
(* arithmetic is exact; f32 and f64 use the rounded operations above.       *)

FloatTypes == {"f32", "f64"}

ElemTypes == {"f32", "f64", "i32"}

IsFloatType(T) == T \in FloatTypes

IntNum(n) == <<"fin", n, 0>>

IntVal(x) == x[2] * Pow10(x[3])

\* T{n}: the literal n converted to the element type.
Lit(T, n) == IF IsFloatType(T) THEN Num(n) ELSE IntNum(n)

TAdd(T, a, b) == IF IsFloatType(T) THEN FAdd(a, b) ELSE IntNum(IntVal(a) + IntVal(b))

TSub(T, a, b) == IF IsFloatType(T) THEN FSub(a, b) ELSE IntNum(IntVal(a) - IntVal(b))

TMul(T, a, b) == IF IsFloatType(T) THEN FMul(a, b) ELSE IntNum(IntVal(a) * IntVal(b))

\* operator/ of the element type; integral division truncates towards zero
\* and is only ever evaluated with a non-zero divisor.
TDiv(T, a, b) ==
    IF IsFloatType(T) THEN FDiv(a, b)
    ELSE IntNum(ISign(IntVal(a)) * ISign(IntVal(b)) * (IAbs(IntVal(a)) \div IAbs(IntVal(b))))

\* The zero-guarded division the generic Vector loop calls: x / 0 == 0.
safe_divide(T, a, b) == IF FEq(b, Lit(T, 0)) THEN Lit(T, 0) ELSE TDiv(T, a, b)

-----------------------------------------------------------------------------
(* Sequence helpers *)

RECURSIVE FoldAdd(_, _, _, _)
\* acc + s[i] + s[i+1] + ... + s[Len(s)], added left to right.
FoldAdd(T, s, i, acc) ==
    IF i > Len(s) THEN acc
    ELSE CHOOSE sum \in { FoldAdd(T, s, i + 1, next) : next \in {TAdd(T, acc, s[i])} } : TRUE

-----------------------------------------------------------------------------
(* Build configuration: the preprocessor symbols the sources branch on. *)

Builds == { b \in [debug : BOOLEAN, sse42 : BOOLEAN, avx2 : BOOLEAN] : b.avx2 => b.sse42 }

-----------------------------------------------------------------------------
(* Vector<T, N>: a record of the two template arguments and m_data. *)

Vec(T, data) == [T |-> T, N |-> Len(data), m_data |-> data]

Vector_zero(T, N) == Vec(T, [i \in 1..N |-> Lit(T, 0)])

\* Vector::operator/=(T const&), the generic scalar loop.
Vector_div_assign_scalar_generic(v, scalar) ==
    [v EXCEPT !.m_data = [i \in 1..v.N |-> safe_divide(v.T, v.m_data[i], scalar)]]

\* Vector<f32, 4>::operator/=(f32 const&): _mm_div_ps under PBRT_HAS_SSE42,
\* a plain m_data[i] /= scalar loop otherwise.
Vector_f32_4_div_assign_scalar(b, v, scalar) ==
    IF b.sse42
    THEN [v EXCEPT !.m_data = [i \in 1..4 |-> FDiv(v.m_data[i], scalar)]]
    ELSE [v EXCEPT !.m_data = [i \in 1..4 |-> TDiv(v.T, v.m_data[i], scalar)]]

\* Vector<f64, 4>::operator/=(f64 const&): _mm256_div_pd under PBRT_HAS_AVX2,
\* a plain m_data[i] /= scalar loop otherwise.
Vector_f64_4_div_assign_scalar(b, v, scalar) ==
    IF b.avx2
    THEN [v EXCEPT !.m_data = [i \in 1..4 |-> FDiv(v.m_data[i], scalar)]]
    ELSE [v EXCEPT !.m_data = [i \in 1..4 |-> TDiv(v.T, v.m_data[i], scalar)]]

\* v /= scalar as the compiler resolves it: the explicit specialisations for
\* <f32, 4> and <f64, 4>, the primary template for everything else.
Vector_div_assign_scalar(b, v, scalar) ==
    IF v.T = "f32" /\ v.N = 4 THEN Vector_f32_4_div_assign_scalar(b, v, scalar)
    ELSE IF v.T = "f64" /\ v.N = 4 THEN Vector_f64_4_div_assign_scalar(b, v, scalar)
    ELSE Vector_div_assign_scalar_generic(v, scalar)

\* Vector::operator/(T const&): copy, then /=.
Vector_div_scalar(b, v, scalar) == Vector_div_assign_scalar(b, v, scalar)

\* Element-wise products of two vectors of the same type and length.
Products(v, w) == [i \in 1..v.N |-> TMul(v.T, v.m_data[i], w.m_data[i])]

\* _mm_hadd_ps(mul, mul) twice, lane 0: (m0 + m1) + (m2 + m3).
HAdd4(T, p) == TAdd(T, TAdd(T, p[1], p[2]), TAdd(T, p[3], p[4]))

\* Vector::dot, primary template: unrolled for N <= 4, std::inner_product
\* (starting from T{0}) beyond.
Vector_dot_generic(v, w) ==
    LET p == Products(v, w)
    IN  IF v.N = 1 THEN p[1]
        ELSE IF v.N <= 4 THEN FoldAdd(v.T, p, 2, p[1])
        ELSE FoldAdd(v.T, p, 1, Lit(v.T, 0))

\* Vector<f32, 3>::dot and Vector<f32, 4>::dot (SSE: mul, hadd, hadd; the
\* 3-vector is padded with a 0 lane), Vector<f64, 4>::dot (AVX2: mul, hadd,
\* add of the two halves); the unrolled sum otherwise.
Vector_dot(b, v, w) ==
    LET p == Products(v, w)
    IN  IF v.T = "f32" /\ v.N = 3 /\ b.sse42 THEN HAdd4(v.T, p \o <<Zero>>)
        ELSE IF v.T = "f32" /\ v.N = 4 /\ b.sse42 THEN HAdd4(v.T, p)
        ELSE IF v.T = "f64" /\ v.N = 4 /\ b.avx2
             THEN TAdd(v.T, TAdd(v.T, p[3], p[4]), TAdd(v.T, p[1], p[2]))
        ELSE Vector_dot_generic(v, w)

\* Vector::length_squared; Vector<f32, 4>::length_squared.
Vector_length_squared(b, v) ==
    IF v.T = "f32" /\ v.N = 4 /\ b.sse42 THEN HAdd4(v.T, Products(v, v))
    ELSE Vector_dot(b, v, v)

\* Vector::length; Vector<f32, 4>::length.
Vector_length(b, v) ==
    IF v.T = "f32" /\ v.N = 4 /\ b.sse42 THEN FSqrt(HAdd4(v.T, Products(v, v)))
    ELSE FSqrt(Vector_length_squared(b, v))

\* The condition of PBRT_ASSERT_MSG(len > T{0}, ...) in Vector::normalize.
Vector_normalize_asserts(b, v) == FGt(Vector_length(b, v), Zero)

\* PBRT_ASSERT_MSG(expr, msg): with PBRT_BUILD_DEBUG a false expr reports the
\* failure and breaks into the debugger; without it the macro is ((void)0).
AssertFails(b, expr) == b.debug /\ ~expr

\* Vector::normalize: T len{length()}; assert; return *this /= len.
Vector_normalize(b, v) == Vector_div_assign_scalar(b, v, Vector_length(b, v))

\* Vector::normalized: copy, then normalize.
Vector_normalized(b, v) == Vector_normalize(b, v)

-----------------------------------------------------------------------------
(* Matrix<T, Rows, Cols>: the three template arguments and m_data, the      *)
(* Rows * Cols elements in row-major order.  Rows and columns are counted   *)
(* from 0 as in the sources; m_data, a sequence, from 1.                    *)

Mat(T, R, C, data) == [T |-> T, Rows |-> R, Cols |-> C, m_data |-> data]

\* Matrix::index: (row * Cols) + col.
Matrix_index(m, row, col) == (row * m.Cols) + col

\* Matrix::operator()(row, col)
At(m, row, col) == m.m_data[Matrix_index(m, row, col) + 1]

\* Matrix::index as it would be with the condition operator() and at assert.
Matrix_index_asserts_either(m, row, col) == row < m.Rows \/ col < m.Cols

\* The condition of the PBRT_ASSERT_MSG in Matrix::index.
Matrix_index_asserts(m, row, col) == row < m.Rows /\ col < m.Cols

\* The condition of the PBRT_ASSERT_MSG in Matrix::operator().
Matrix_call_asserts(m, row, col) == row < m.Rows \/ col < m.Cols

\* The condition of the PBRT_ASSERT_MSG in Matrix::at.
Matrix_at_asserts(m, row, col) == row < m.Rows \/ col < m.Cols

\* m(row, col) breaks at an assertion: its own or that of index.
Matrix_call_traps(b, m, row, col) ==
    \/ AssertFails(b, Matrix_call_asserts(m, row, col))
    \/ AssertFails(b, Matrix_index_asserts(m, row, col))

\* m.at(row, col) breaks at an assertion: its own or one of operator().
Matrix_at_traps(b, m, row, col) ==
    \/ AssertFails(b, Matrix_at_asserts(m, row, col))
    \/ Matrix_call_traps(b, m, row, col)

\* alignof(T)
AlignOf(T) == IF T = "f64" THEN 8 ELSE 4

\* matrix_traits<T, R, C>: the primary template and its four specialisations.
\* storage_type is "matrix_union" for the union of SIMD rows and scalar
\* rows, "array" for std::array<std::array<T, C>, R>.
matrix_traits(T, R, C) ==
    IF T = "f32" /\ R = 4 /\ C = 4
    THEN [kIsSimdCompatible |-> TRUE, kAlignment |-> 16, storage_type |-> "matrix_union"]
    ELSE IF T = "f32" /\ R = 3 /\ C = 3
    THEN [kIsSimdCompatible |-> TRUE, kAlignment |-> 16, storage_type |-> "matrix_union"]
    ELSE IF T = "f64" /\ R = 3 /\ C = 3
    THEN [kIsSimdCompatible |-> TRUE, kAlignment |-> 32, storage_type |-> "matrix_union"]
    ELSE IF T = "f64" /\ R = 4 /\ C = 4
    THEN [kIsSimdCompatible |-> TRUE, kAlignment |-> 32, storage_type |-> "matrix_union"]
    ELSE [kIsSimdCompatible |-> FALSE, kAlignment |-> AlignOf(T), storage_type |-> "array"]

\* The matrix whose element (row, col) is f[row, col]; m_data is the
\* sequence of the elements.
MatOf(T, R, C, f) ==
    Mat(T, R, C, [i \in 1..(R * C) |-> f[(i - 1) \div C, (i - 1) % C]] \o <<>>)

\* Matrix{}: value-initialised, every element T{0}; Matrix::zero.
Matrix_zero(T, R, C) == Mat(T, R, C, [i \in 1..(R * C) |-> Lit(T, 0)])

\* Matrix::diagonal(value)
Matrix_diagonal(T, N, value) ==
    MatOf(T, N, N, [r \in 0..(N - 1), c \in 0..(N - 1) |-> IF r = c THEN value ELSE Lit(T, 0)])

\* Matrix::identity
Matrix_identity(T, N) == Matrix_diagonal(T, N, Lit(T, 1))

IsF32x4x4(m) == m.T = "f32" /\ m.Rows = 4 /\ m.Cols = 4

IsF64x4x4(m) == m.T = "f64" /\ m.Rows = 4 /\ m.Cols = 4

\* Matrix::operator/=(T const&), primary template: a zero scalar returns
\* *this untouched.
Matrix_div_assign_scalar_generic(m, scalar) ==
    IF FEq(scalar, Lit(m.T, 0)) THEN m
    ELSE [m EXCEPT !.m_data = [i \in 1..Len(m.m_data) |-> TDiv(m.T, m.m_data[i], scalar)]]

\* Matrix<f32, 4, 4>::operator/=: _mm_div_ps on each row under
\* PBRT_HAS_SSE42, m_data[i] /= scalar otherwise; neither tests the scalar.
Matrix_f32_4_4_div_assign_scalar(b, m, scalar) ==
    IF b.sse42
    THEN [m EXCEPT !.m_data = [i \in 1..16 |-> FDiv(m.m_data[i], scalar)]]
    ELSE [m EXCEPT !.m_data = [i \in 1..16 |-> TDiv(m.T, m.m_data[i], scalar)]]

\* Matrix<f64, 4, 4>::operator/=: _mm256_div_pd under PBRT_HAS_AVX2,
\* m_data[i] /= scalar otherwise.
Matrix_f64_4_4_div_assign_scalar(b, m, scalar) ==
    IF b.avx2
    THEN [m EXCEPT !.m_data = [i \in 1..16 |-> FDiv(m.m_data[i], scalar)]]
    ELSE [m EXCEPT !.m_data = [i \in 1..16 |-> TDiv(m.T, m.m_data[i], scalar)]]

\* m /= scalar as the compiler resolves it.
Matrix_div_assign_scalar(b, m, scalar) ==
    IF IsF32x4x4(m) THEN Matrix_f32_4_4_div_assign_scalar(b, m, scalar)
    ELSE IF IsF64x4x4(m) THEN Matrix_f64_4_4_div_assign_scalar(b, m, scalar)
    ELSE Matrix_div_assign_scalar_generic(m, scalar)

\* Matrix::operator/(T const&): copy, then /=.
Matrix_div_scalar(b, m, scalar) == Matrix_div_assign_scalar(b, m, scalar)

\* Matrix::operator+=(Matrix const&), the element loop (also the #else branch
\* of the 4x4 specialisations).
Matrix_add_scalar_loop(m, o) ==
    [m EXCEPT !.m_data = [i \in 1..Len(m.m_data) |-> TAdd(m.T, m.m_data[i], o.m_data[i])]]

\* Matrix<f32, 4, 4>::operator+=, PBRT_HAS_SSE42 branch: for each row,
\* _mm_add_ps of the four lanes.
Matrix_f32_4_4_add_sse(m, o) ==
    [m EXCEPT !.m_data =
        [i \in 1..16 |->
            LET row  == (i - 1) \div 4
                lane == (i - 1) % 4
            IN  FAdd(m.m_data[4 * row + lane + 1], o.m_data[4 * row + lane + 1])]]

\* m1 + m2 as the compiler resolves it (the <f64, 4, 4> specialisation has
\* the same shape with _mm256_add_pd).
Matrix_add(b, m, o) ==
    IF (IsF32x4x4(m) /\ b.sse42) \/ (IsF64x4x4(m) /\ b.avx2)
    THEN Matrix_f32_4_4_add_sse(m, o)
    ELSE Matrix_add_scalar_loop(m, o)

\* Matrix::operator==, the element loop: false at the first m_data[i] !=
\* other.m_data[i].
Matrix_eq_scalar_loop(m, o) ==
    \A i \in 1..Len(m.m_data) : ~FNe(m.m_data[i], o.m_data[i])

\* Matrix<f32, 4, 4>::operator==, PBRT_HAS_SSE42 branch: per row
\* _mm_cmpeq_ps and _mm_movemask_ps; false unless all four mask bits are set.
Matrix_f32_4_4_eq_sse(m, o) ==
    \A row \in 0..3 :
        LET mask == { lane \in 0..3 : FEq(m.m_data[4 * row + lane + 1], o.m_data[4 * row + lane + 1]) }
        IN  mask = 0..3

\* m1 == m2 as the compiler resolves it.
Matrix_eq(b, m, o) ==
    IF (IsF32x4x4(m) /\ b.sse42) \/ (IsF64x4x4(m) /\ b.avx2)
    THEN Matrix_f32_4_4_eq_sse(m, o)
    ELSE Matrix_eq_scalar_loop(m, o)

\* Matrix::transpose, the double loop: result(j, i) = (*this)(i, j).
Matrix_transpose_scalar_loop(m) ==
    MatOf(m.T, m.Cols, m.Rows,
          [j \in 0..(m.Cols - 1), i \in 0..(m.Rows - 1) |-> At(m, i, j)])

\* The SSE shuffles on four-lane registers (lanes counted from 1).
mm_unpacklo_ps(a, b) == <<a[1], b[1], a[2], b[2]>>

mm_unpackhi_ps(a, b) == <<a[3], b[3], a[4], b[4]>>

mm_movelh_ps(a, b) == <<a[1], a[2], b[1], b[2]>>

mm_movehl_ps(a, b) == <<b[3], b[4], a[3], a[4]>>

\* _mm_loadu_ps(&m_data[4 * row])
LoadRow(m, row) == [lane \in 1..4 |-> m.m_data[4 * row + lane]]

\* The SSE transpose as it would be with the operands of the two
\* _mm_movehl_ps in the order of those of _mm_movelh_ps.
Matrix_f32_4_4_transpose_sse_swapped(m) ==
    LET row0 == LoadRow(m, 0)
        row1 == LoadRow(m, 1)
        row2 == LoadRow(m, 2)
        row3 == LoadRow(m, 3)
        tmp0 == mm_unpacklo_ps(row0, row1)
        tmp1 == mm_unpacklo_ps(row2, row3)
        tmp2 == mm_unpackhi_ps(row0, row1)
        tmp3 == mm_unpackhi_ps(row2, row3)
    IN  Mat(m.T, 4, 4,
            mm_movelh_ps(tmp0, tmp1) \o mm_movehl_ps(tmp0, tmp1) \o
            mm_movelh_ps(tmp2, tmp3) \o mm_movehl_ps(tmp2, tmp3))

\* Matrix<f32, 4, 4>::transpose, PBRT_HAS_SSE42 branch.
Matrix_f32_4_4_transpose_sse(m) ==
    LET row0 == LoadRow(m, 0)
        row1 == LoadRow(m, 1)
        row2 == LoadRow(m, 2)
        row3 == LoadRow(m, 3)
        tmp0 == mm_unpacklo_ps(row0, row1)
        tmp1 == mm_unpacklo_ps(row2, row3)
        tmp2 == mm_unpackhi_ps(row0, row1)
        tmp3 == mm_unpackhi_ps(row2, row3)
    IN  Mat(m.T, 4, 4,
            mm_movelh_ps(tmp0, tmp1) \o mm_movehl_ps(tmp1, tmp0) \o
            mm_movelh_ps(tmp2, tmp3) \o mm_movehl_ps(tmp3, tmp2))

\* The AVX shuffles on four-lane double registers (lanes counted from 1).
mm256_unpacklo_pd(a, b) == <<a[1], b[1], a[3], b[3]>>

mm256_unpackhi_pd(a, b) == <<a[2], b[2], a[4], b[4]>>

\* _mm256_permute2f128_pd(a, b, 0x20): the low halves of a and b.
mm256_permute2f128_pd_0x20(a, b) == <<a[1], a[2], b[1], b[2]>>

\* _mm256_permute2f128_pd(a, b, 0x31): the high halves of a and b.
mm256_permute2f128_pd_0x31(a, b) == <<a[3], a[4], b[3], b[4]>>

\* Matrix<f64, 4, 4>::transpose, PBRT_HAS_AVX2 branch.
Matrix_f64_4_4_transpose_avx(m) ==
    LET row0 == LoadRow(m, 0)
        row1 == LoadRow(m, 1)
        row2 == LoadRow(m, 2)
        row3 == LoadRow(m, 3)
        t0   == mm256_unpacklo_pd(row0, row1)
        t1   == mm256_unpackhi_pd(row0, row1)
        t2   == mm256_unpacklo_pd(row2, row3)
        t3   == mm256_unpackhi_pd(row2, row3)
    IN  Mat(m.T, 4, 4,
            mm256_permute2f128_pd_0x20(t0, t2) \o mm256_permute2f128_pd_0x20(t1, t3) \o
            mm256_permute2f128_pd_0x31(t0, t2) \o mm256_permute2f128_pd_0x31(t1, t3))

\* m.transpose() as the compiler resolves it.
Matrix_transpose(b, m) ==
    IF IsF32x4x4(m) /\ b.sse42 THEN Matrix_f32_4_4_transpose_sse(m)
    ELSE IF IsF64x4x4(m) /\ b.avx2 THEN Matrix_f64_4_4_transpose_avx(m)
    ELSE Matrix_transpose_scalar_loop(m)

-----------------------------------------------------------------------------
(* Matrix * Matrix *)

\* constexpr SizeType blockSize{32} of Matrix::multiply_blocked.
blockSize == 32

\* The bound each of Rows, Cols and OtherCols must exceed for
\* Matrix::operator* to call multiply_blocked.
BlockedThreshold == 8

RECURSIVE SumProducts(_, _, _, _, _, _, _)
\* for (k = kk; k < kMax; ++k) sum += (*this)(i, k) * other(k, j);
\* The products are added to sum one by one in the order of k: those of
\* the first half of the range, then, to what that gave, those of the second.
SumProducts(m, o, i, j, k, kMax, sum) ==
    IF k >= kMax THEN sum
    ELSE IF k + 1 = kMax THEN TAdd(m.T, sum, TMul(m.T, At(m, i, k), At(o, k, j)))
    ELSE CHOOSE total \in
             { SumProducts(m, o, i, j, (k + kMax) \div 2, kMax, firstHalf) :
                 firstHalf \in {SumProducts(m, o, i, j, k, (k + kMax) \div 2, sum)} } : TRUE

\* Matrix::multiply_naive
multiply_naive(m, o) ==
    MatOf(m.T, m.Rows, o.Cols,
          [i \in 0..(m.Rows - 1), j \in 0..(o.Cols - 1) |->
              SumProducts(m, o, i, j, 0, m.Cols, Lit(m.T, 0))])

\* multiply_block as it would be with T sum{0}: what earlier blocks
\* accumulated is discarded.
BlockStart_zero(result, i, j) == Lit(result.T, 0)

\* The value multiply_block starts each element's sum from: T sum{result(i, j)}.
BlockStart(result, i, j) == At(result, i, j)

\* Matrix::multiply_block: adds the products of one block to result.
multiply_block(result, m, o, ii, jj, kk, bs) ==
    LET iMax == IMin(ii + bs, m.Rows)
        jMax == IMin(jj + bs, o.Cols)
        kMax == IMin(kk + bs, m.Cols)
    IN  MatOf(result.T, result.Rows, result.Cols,
              [i \in 0..(result.Rows - 1), j \in 0..(result.Cols - 1) |->
                  IF i >= ii /\ i < iMax /\ j >= jj /\ j < jMax
                  THEN SumProducts(m, o, i, j, kk, kMax, BlockStart(result, i, j))
                  ELSE At(result, i, j)])

RECURSIVE BlockLoops(_, _, _, _, _, _, _)
\* The three nested block loops of multiply_blocked, from block (ii, jj, kk) on.
BlockLoops(result, m, o, ii, jj, kk, bs) ==
    IF ii >= m.Rows THEN result
    ELSE IF jj >= o.Cols THEN BlockLoops(result, m, o, ii + bs, 0, 0, bs)
    ELSE IF kk >= m.Cols THEN BlockLoops(result, m, o, ii, jj + bs, 0, bs)
    ELSE CHOOSE final \in
             { BlockLoops(next, m, o, ii, jj, kk + bs, bs) :
                 next \in {multiply_block(result, m, o, ii, jj, kk, bs)} } : TRUE

\* Matrix::multiply_blocked
multiply_blocked(m, o) ==
    BlockLoops(Matrix_zero(m.T, m.Rows, o.Cols), m, o, 0, 0, 0, blockSize)

\* _mm_dp_ps(a, b, 0xF1 << lane): the four products summed as
\* (p0 + p1) + (p2 + p3) into one lane, the other lanes 0.
mm_dp_ps(a, b, lane) ==
    LET dot == FAdd(FAdd(FMul(a[1], b[1]), FMul(a[2], b[2])),
                    FAdd(FMul(a[3], b[3]), FMul(a[4], b[4])))
    IN  [l \in 1..4 |-> IF l = lane THEN dot ELSE Zero]

\* _mm_or_ps of registers of which at most one is non-zero in each lane.
mm_or_ps(a, b) == [l \in 1..4 |-> IF b[l] = Zero THEN a[l] ELSE b[l]]

\* The SSE product as it would be without _MM_TRANSPOSE4_PS: each row is
\* multiplied with the rows of other instead of its columns.
Matrix_f32_4_4_mul_sse_untransposed(m, o) ==
    LET resultRow(i) ==
            LET row  == LoadRow(m, i)
                res0 == mm_dp_ps(row, LoadRow(o, 0), 1)
                res1 == mm_dp_ps(row, LoadRow(o, 1), 2)
                res2 == mm_dp_ps(row, LoadRow(o, 2), 3)
                res3 == mm_dp_ps(row, LoadRow(o, 3), 4)
            IN  mm_or_ps(mm_or_ps(res0, res1), mm_or_ps(res2, res3))
    IN  Mat(m.T, 4, 4, [k \in 1..16 |-> resultRow((k - 1) \div 4)[((k - 1) % 4) + 1]])

\* Matrix<f32, 4, 4>::operator*(Matrix<f32, 4, 4>), PBRT_HAS_SSE42 branch:
\* the rows of other are loaded and transposed by _MM_TRANSPOSE4_PS, so that
\* col0..col3 are its columns; each result row is four _mm_dp_ps or-ed.
Matrix_f32_4_4_mul_sse(m, o) ==
    LET col(c) == [l \in 1..4 |-> LoadRow(o, l - 1)[c]]
        resultRow(i) ==
            LET row  == LoadRow(m, i)
                res0 == mm_dp_ps(row, col(1), 1)
                res1 == mm_dp_ps(row, col(2), 2)
                res2 == mm_dp_ps(row, col(3), 3)
                res3 == mm_dp_ps(row, col(4), 4)
            IN  mm_or_ps(mm_or_ps(res0, res1), mm_or_ps(res2, res3))
    IN  Mat(m.T, 4, 4, [k \in 1..16 |-> resultRow((k - 1) \div 4)[((k - 1) % 4) + 1]])

\* Matrix<f64, 4, 4>::operator*(Matrix<f64, 4, OtherCols>), PBRT_HAS_AVX2
\* branch: per element, the products summed as (p0 + p2) + (p1 + p3).
Matrix_f64_4_4_mul_avx(m, o) ==
    MatOf(m.T, 4, o.Cols,
          [i \in 0..3, c \in 0..(o.Cols - 1) |->
              LET p(k) == FMul(At(m, i, k), At(o, k, c))
              IN  FAdd(FAdd(p(0), p(2)), FAdd(p(1), p(3)))])

\* The selection as it would be with blockSize as the threshold.
Matrix_mul_algorithm_blockSize(b, m, o) ==
    IF IsF32x4x4(m) THEN (IF b.sse42 /\ o.Cols = 4 THEN "sse" ELSE "naive")
    ELSE IF IsF64x4x4(m) THEN (IF b.avx2 THEN "avx" ELSE "naive")
    ELSE IF m.Rows > blockSize /\ m.Cols > blockSize /\ o.Cols > blockSize
         THEN "blocked"
    ELSE "naive"

\* The algorithm operator* runs for this pair of operands in build b.
Matrix_mul_algorithm(b, m, o) ==
    IF IsF32x4x4(m) THEN (IF b.sse42 /\ o.Cols = 4 THEN "sse" ELSE "naive")
    ELSE IF IsF64x4x4(m) THEN (IF b.avx2 THEN "avx" ELSE "naive")
    ELSE IF m.Rows > BlockedThreshold /\ m.Cols > BlockedThreshold /\ o.Cols > BlockedThreshold
         THEN "blocked"
    ELSE "naive"

\* Matrix::operator*(Matrix const&) and its two 4x4 specialisations.
Matrix_mul(b, m, o) ==
    CASE Matrix_mul_algorithm(b, m, o) = "sse"     -> Matrix_f32_4_4_mul_sse(m, o)
      [] Matrix_mul_algorithm(b, m, o) = "avx"     -> Matrix_f64_4_4_mul_avx(m, o)
      [] Matrix_mul_algorithm(b, m, o) = "blocked" -> multiply_blocked(m, o)
      [] OTHER                                     -> multiply_naive(m, o)

-----------------------------------------------------------------------------
(* Constants of pbrt/math/constants.hpp *)

EPSILON == Dec(1, -6)

PRECISION_EPSILON == Dec(1, -10)

-----------------------------------------------------------------------------
(* State *)

VARIABLES
    build,  \* the build configuration the program was compiled with
    vec,    \* a Vector object
    mat,    \* a Matrix object
    other,  \* the right-hand operand of a binary Matrix operation
    ret,    \* the value the last operation returned
    op,     \* the last operation and its arguments
    trap,   \* TRUE once a failed assertion has broken into the debugger
    tc,     \* a TransformComponent object
    prof,   \* the Profiler singleton
    thr,    \* the threads calling into the Profiler
    calls,  \* the number of operations called on the object so far
    scene,  \* a Scene object
    timers, \* the ScopedTimer objects alive, the innermost scope last
    hist,   \* history: what the calls made so far did, kept to state properties
    logger  \* the Logger singleton and what its callbacks have been handed

vars == <<build, vec, mat, other, ret, op, trap, tc, prof, thr, calls, scene, timers, hist, logger>>

NoOp == <<"init">>

NoRet == <<"none">>

\* Values of the objects a specification does not exercise.
IdleVec == Vector_zero("f32", 1)

IdleMat == Matrix_zero("f32", 1, 1)

IdleTc == <<"none">>

IdleProf == <<"none">>

IdleThr == <<"none">>

IdleScene == <<"none">>

NoHist == <<"none">>

\* std::function's empty state, which compares equal to nullptr.
nullptr == <<"nullptr">>

\* Logger's members as constructed, m_logCallback{nullptr}, with received:
\* the records the callbacks have been called with, each with its callback.
Logger_members == [m_logCallback |-> nullptr, received |-> <<>>]

IdleLogger == Logger_members

-----------------------------------------------------------------------------
(* Matrix::determinant and Matrix::inverse *)

\* The 24 terms of the 4x4 expansion in the order the source writes them:
\* <<sign, c0, c1, c2, c3>> stands for sign * a0c0 * a1c1 * a2c2 * a3c3.
Det4Terms ==
    << <<1, 3, 2, 1, 0>>, <<-1, 2, 3, 1, 0>>, <<-1, 3, 1, 2, 0>>,
       <<1, 1, 3, 2, 0>>, <<1, 2, 1, 3, 0>>, <<-1, 1, 2, 3, 0>>,
       <<-1, 3, 2, 0, 1>>, <<1, 2, 3, 0, 1>>, <<1, 3, 0, 2, 1>>,
       <<-1, 0, 3, 2, 1>>, <<-1, 2, 0, 3, 1>>, <<1, 0, 2, 3, 1>>,
       <<1, 3, 1, 0, 2>>, <<-1, 1, 3, 0, 2>>, <<-1, 3, 0, 1, 2>>,
       <<1, 0, 3, 1, 2>>, <<1, 1, 0, 3, 2>>, <<-1, 0, 1, 3, 2>>,
       <<-1, 2, 1, 0, 3>>, <<1, 1, 2, 0, 3>>, <<1, 2, 0, 1, 3>>,
       <<-1, 0, 2, 1, 3>>, <<-1, 1, 0, 2, 3>>, <<1, 0, 1, 2, 3>> >>

\* The value of the expansion: the terms are added and subtracted left to
\* right.  fold(n, nMax, sum) is sum with the terms n .. nMax - 1 applied in
\* that order: those of the first half of the range, then those of the second.
Det4Sum(m) ==
    LET term(t) == TMul(m.T, TMul(m.T, TMul(m.T, At(m, 0, t[2]), At(m, 1, t[3])),
                                  At(m, 2, t[4])), At(m, 3, t[5]))
        RECURSIVE fold(_, _, _)
        fold(n, nMax, sum) ==
            IF n >= nMax THEN sum
            ELSE IF n + 1 = nMax
                 THEN (IF Det4Terms[n][1] > 0 THEN TAdd(m.T, sum, term(Det4Terms[n]))
                       ELSE TSub(m.T, sum, term(Det4Terms[n])))
            ELSE CHOOSE total \in
                     { fold((n + nMax) \div 2, nMax, firstHalf) :
                         firstHalf \in {fold(n, (n + nMax) \div 2, sum)} } : TRUE
    IN  CHOOSE det \in
            { fold(2, Len(Det4Terms) + 1, first) : first \in {term(Det4Terms[1])} } : TRUE

\* T val = std::abs(lu(k, i)); if (val > maxVal) ... over k = i + 1 .. Rows - 1:
\* the row whose element in column i is largest in magnitude, the first such.
RECURSIVE PivotRow(_, _, _, _)
PivotRow(m, i, k, best) ==
    IF k >= m.Rows THEN best
    ELSE CHOOSE row \in
             { PivotRow(m, i, k + 1, next) :
                 next \in {IF FGt(FAbs(At(m, k, i)), FAbs(At(m, best, i))) THEN k ELSE best} } : TRUE

\* std::swap of rows r1 and r2, element by element.
SwapRows(m, r1, r2) ==
    MatOf(m.T, m.Rows, m.Cols,
          [r \in 0..(m.Rows - 1), c \in 0..(m.Cols - 1) |->
              IF r = r1 THEN At(m, r2, c) ELSE IF r = r2 THEN At(m, r1, c) ELSE At(m, r, c)])

RECURSIVE LuLoop(_, _, _)
\* Iterations i .. iMax - 1 of the elimination loop of Matrix::determinant for
\* Rows > 4, run on state = <<returned, lu, det>>; returned says that the
\* function has returned T{0}.  The iterations of the first half of the range
\* run first, those of the second half on the state they leave.
LuLoop(state, i, iMax) ==
    IF i >= iMax \/ state[1] THEN state
    ELSE IF i + 1 = iMax
    THEN LET lu       == state[2]
             det      == state[3]
             pivotRow == PivotRow(lu, i, i + 1, i)
             maxVal   == FAbs(At(lu, pivotRow, i))
             \* factor * row i subtracted from the rows below it
             Eliminated(sw) ==
                 MatOf(sw.T, sw.Rows, sw.Cols,
                       [k \in 0..(sw.Rows - 1), j \in 0..(sw.Cols - 1) |->
                           IF k > i /\ j > i
                           THEN FSub(At(sw, k, j),
                                     FMul(FDiv(At(sw, k, i), At(sw, i, i)), At(sw, i, j)))
                           ELSE At(sw, k, j)])
         IN  IF FLt(maxVal, PRECISION_EPSILON) THEN <<TRUE, lu, Zero>>
             ELSE CHOOSE next \in
                      { << FALSE, Eliminated(sw),
                           FMul(IF pivotRow # i THEN FNeg(det) ELSE det, At(sw, i, i)) >> :
                          sw \in {IF pivotRow # i THEN SwapRows(lu, i, pivotRow) ELSE lu} } : TRUE
    ELSE CHOOSE last \in
             { LuLoop(firstHalf, (i + iMax) \div 2, iMax) :
                 firstHalf \in {LuLoop(state, i, (i + iMax) \div 2)} } : TRUE

\* Matrix::determinant
Matrix_determinant(m) ==
    LET a(r, c) == At(m, r, c)
        A(x, y) == TAdd(m.T, x, y)
        S(x, y) == TSub(m.T, x, y)
        M(x, y) == TMul(m.T, x, y)
    IN  IF m.Rows = 1 THEN a(0, 0)
        ELSE IF m.Rows = 2 THEN S(M(a(0, 0), a(1, 1)), M(a(0, 1), a(1, 0)))
        ELSE IF m.Rows = 3
             THEN A(S(M(a(0, 0), S(M(a(1, 1), a(2, 2)), M(a(1, 2), a(2, 1)))),
                      M(a(0, 1), S(M(a(1, 0), a(2, 2)), M(a(1, 2), a(2, 0))))),
                    M(a(0, 2), S(M(a(1, 0), a(2, 1)), M(a(1, 1), a(2, 0)))))
        ELSE IF m.Rows = 4 THEN Det4Sum(m)
        ELSE LuLoop(<<FALSE, m, Lit(m.T, 1)>>, 0, m.Rows)[3]

\* Matrix::inverse_1
inverse_1(m) ==
    LET det == At(m, 0, 0)
    IN  IF FLe(FAbs(det), PRECISION_EPSILON) THEN Matrix_zero(m.T, 1, 1)
        ELSE Mat(m.T, 1, 1, <<FDiv(One, det)>>)

\* Matrix::inverse_2
inverse_2(m) ==
    LET a   == At(m, 0, 0)
        b   == At(m, 0, 1)
        c   == At(m, 1, 0)
        d   == At(m, 1, 1)
        det == FSub(FMul(a, d), FMul(b, c))
        inverseDet == FDiv(One, det)
    IN  IF FLe(FAbs(det), PRECISION_EPSILON) THEN Matrix_zero(m.T, 2, 2)
        ELSE Mat(m.T, 2, 2, <<FMul(d, inverseDet), FMul(FNeg(b), inverseDet),
                              FMul(FNeg(c), inverseDet), FMul(a, inverseDet)>>)

\* T det{m00 * c00 - m01 * c10 + m02 * c20} of Matrix::inverse_3.
inverse_3_det(m) ==
    LET m00 == At(m, 0, 0)
        m01 == At(m, 0, 1)
        m02 == At(m, 0, 2)
        m11 == At(m, 1, 1)
        m12 == At(m, 1, 2)
        m21 == At(m, 2, 1)
        m22 == At(m, 2, 2)
        c00 == FSub(FMul(m11, m22), FMul(m12, m21))
        c10 == FSub(FMul(m01, m22), FMul(m02, m21))
        c20 == FSub(FMul(m01, m12), FMul(m02, m11))
    IN  FAdd(FSub(FMul(m00, c00), FMul(m01, c10)), FMul(m02, c20))

\* Matrix::inverse_3
inverse_3(m) ==
    LET m00 == At(m, 0, 0)
        m01 == At(m, 0, 1)
        m02 == At(m, 0, 2)
        m10 == At(m, 1, 0)
        m11 == At(m, 1, 1)
        m12 == At(m, 1, 2)
        m20 == At(m, 2, 0)
        m21 == At(m, 2, 1)
        m22 == At(m, 2, 2)
        c00 == FSub(FMul(m11, m22), FMul(m12, m21))
        c01 == FSub(FMul(m10, m22), FMul(m12, m20))
        c02 == FSub(FMul(m10, m21), FMul(m11, m20))
        c10 == FSub(FMul(m01, m22), FMul(m02, m21))
        c11 == FSub(FMul(m00, m22), FMul(m02, m20))
        c12 == FSub(FMul(m00, m21), FMul(m01, m20))
        c20 == FSub(FMul(m01, m12), FMul(m02, m11))
        c21 == FSub(FMul(m00, m12), FMul(m02, m10))
        c22 == FSub(FMul(m00, m11), FMul(m01, m10))
        Result(det) ==
            LET inverseDet == FDiv(One, det)
            IN  IF FLe(FAbs(det), PRECISION_EPSILON) THEN Matrix_zero(m.T, 3, 3)
                ELSE Mat(m.T, 3, 3,
                         <<FMul(c00, inverseDet), FMul(FNeg(c10), inverseDet), FMul(c20, inverseDet),
                           FMul(FNeg(c01), inverseDet), FMul(c11, inverseDet), FMul(FNeg(c21), inverseDet),
                           FMul(c02, inverseDet), FMul(FNeg(c12), inverseDet), FMul(c22, inverseDet)>>)
    IN  CHOOSE result \in { Result(det) : det \in {inverse_3_det(m)} } : TRUE

\* Matrix::inverse_4
inverse_4(m) ==
    LET m00 == At(m, 0, 0)
        m01 == At(m, 0, 1)
        m02 == At(m, 0, 2)
        m03 == At(m, 0, 3)
        m10 == At(m, 1, 0)
        m11 == At(m, 1, 1)
        m12 == At(m, 1, 2)
        m13 == At(m, 1, 3)
        m20 == At(m, 2, 0)
        m21 == At(m, 2, 1)
        m22 == At(m, 2, 2)
        m23 == At(m, 2, 3)
        m30 == At(m, 3, 0)
        m31 == At(m, 3, 1)
        m32 == At(m, 3, 2)
        m33 == At(m, 3, 3)
        A(x, y) == FAdd(x, y)
        S(x, y) == FSub(x, y)
        M(x, y) == FMul(x, y)
        N(x)    == FNeg(x)
        \* The return statement, given s == <<s0, ..., s5>>, c == <<c0, ..., c5>>
        \* and det.  An element <<sign, x1, y1, x2, y2, x3, y3>> is written
        \* (x1 * y1 - x2 * y2 + x3 * y3) * inverseDet when sign = 1 and
        \* (-x1 * y1 + x2 * y2 - x3 * y3) * inverseDet when sign = -1.
        Result(s, c, det) ==
            LET inverseDet == FDiv(One, det)
                s0 == s[1]
                s1 == s[2]
                s2 == s[3]
                s3 == s[4]
                s4 == s[5]
                s5 == s[6]
                c0 == c[1]
                c1 == c[2]
                c2 == c[3]
                c3 == c[4]
                c4 == c[5]
                c5 == c[6]
                elements ==
                    << << 1, m11, c5, m12, c4, m13, c3>>,
                       <<-1, m01, c5, m02, c4, m03, c3>>,
                       << 1, m31, s5, m32, s4, m33, s3>>,
                       <<-1, m21, s5, m22, s4, m23, s3>>,

                       <<-1, m10, c5, m12, c2, m13, c1>>,
                       << 1, m00, c5, m02, c2, m03, c1>>,
                       <<-1, m30, s5, m32, s2, m33, s1>>,
                       << 1, m20, s5, m22, s2, m23, s1>>,

                       << 1, m10, c4, m11, c2, m13, c0>>,
                       <<-1, m00, c4, m01, c2, m03, c0>>,
                       << 1, m30, s4, m31, s2, m33, s0>>,
                       <<-1, m20, s4, m21, s2, m23, s0>>,

                       <<-1, m10, c3, m11, c1, m12, c0>>,
                       << 1, m00, c3, m01, c1, m02, c0>>,
                       <<-1, m30, s3, m31, s1, m32, s0>>,
                       << 1, m20, s3, m21, s1, m22, s0>> >>
                element(e) ==
                    IF e[1] = 1
                    THEN M(A(S(M(e[2], e[3]), M(e[4], e[5])), M(e[6], e[7])), inverseDet)
                    ELSE M(S(A(M(N(e[2]), e[3]), M(e[4], e[5])), M(e[6], e[7])), inverseDet)
            IN  IF FLe(FAbs(det), PRECISION_EPSILON) THEN Matrix_zero(m.T, 4, 4)
                ELSE Mat(m.T, 4, 4, [k \in 1..16 |-> element(elements[k])])
        \* T det{s0 * c5 - s1 * c4 + s2 * c3 + s3 * c2 - s4 * c1 + s5 * c0}
        Det(s, c) ==
            A(S(A(A(S(M(s[1], c[6]), M(s[2], c[5])), M(s[3], c[4])), M(s[4], c[3])),
                M(s[5], c[2])), M(s[6], c[1]))
        WithDet(s, c) == CHOOSE result \in { Result(s, c, det) : det \in {Det(s, c)} } : TRUE
    IN  CHOOSE result \in
            { WithDet(s, c) :
                s \in { << S(M(m00, m11), M(m01, m10)),
                           S(M(m00, m12), M(m02, m10)),
                           S(M(m00, m13), M(m03, m10)),
                           S(M(m01, m12), M(m02, m11)),
                           S(M(m01, m13), M(m03, m11)),
                           S(M(m02, m13), M(m03, m12)) >> },
                c \in { << S(M(m20, m31), M(m21, m30)),
                           S(M(m20, m32), M(m22, m30)),
                           S(M(m20, m33), M(m23, m30)),
                           S(M(m21, m32), M(m22, m31)),
                           S(M(m21, m33), M(m23, m31)),
                           S(M(m22, m33), M(m23, m32)) >> } } : TRUE

RECURSIVE GaussJordan(_, _, _)
\* Iterations i .. iMax - 1 of the elimination loop of Matrix::inverse_n, run
\* on state = <<singular, augmented>>; singular says that the function has
\* returned {}.  The iterations of the first half of the range run first,
\* those of the second half on the state they leave.
GaussJordan(state, i, iMax) ==
    IF i >= iMax \/ state[1] THEN state
    ELSE IF i + 1 = iMax
    THEN LET aug      == state[2]
             pivotRow == PivotRow(aug, i, i + 1, i)
             maxVal   == FAbs(At(aug, pivotRow, i))
             \* row i divided by the pivot
             Normalized(sw) ==
                 MatOf(sw.T, sw.Rows, sw.Cols,
                       [r \in 0..(sw.Rows - 1), j \in 0..(sw.Cols - 1) |->
                           IF r = i THEN FDiv(At(sw, r, j), At(sw, i, i)) ELSE At(sw, r, j)])
             \* factor * row i subtracted from every other row k
             Eliminated(nr) ==
                 MatOf(nr.T, nr.Rows, nr.Cols,
                       [k \in 0..(nr.Rows - 1), j \in 0..(nr.Cols - 1) |->
                           IF k # i
                           THEN FSub(At(nr, k, j), FMul(At(nr, k, i), At(nr, i, j)))
                           ELSE At(nr, k, j)])
         IN  IF FLe(maxVal, PRECISION_EPSILON) THEN <<TRUE, aug>>
             ELSE CHOOSE next \in
                      { <<FALSE, Eliminated(nr)>> :
                          nr \in { Normalized(sw) :
                                     sw \in {IF pivotRow # i THEN SwapRows(aug, i, pivotRow)
                                             ELSE aug} } } : TRUE
    ELSE CHOOSE last \in
             { GaussJordan(firstHalf, (i + iMax) \div 2, iMax) :
                 firstHalf \in {GaussJordan(state, i, (i + iMax) \div 2)} } : TRUE

\* Matrix::inverse_n
inverse_n(m) ==
    LET N         == m.Rows
        augmented == MatOf(m.T, N, 2 * N,
                         [i \in 0..(N - 1), j \in 0..(2 * N - 1) |->
                             IF j < N THEN At(m, i, j)
                             ELSE IF j - N = i THEN One ELSE Zero])
        gj        == GaussJordan(<<FALSE, augmented>>, 0, N)
    IN  IF gj[1] THEN Matrix_zero(m.T, N, N)
        ELSE MatOf(m.T, N, N, [i \in 0..(N - 1), j \in 0..(N - 1) |-> At(gj[2], i, j + N)])

\* Matrix::inverse
Matrix_inverse(m) ==
    IF m.Rows = 1 THEN inverse_1(m)
    ELSE IF m.Rows = 2 THEN inverse_2(m)
    ELSE IF m.Rows = 3 THEN inverse_3(m)
    ELSE IF m.Rows = 4 THEN inverse_4(m)
    ELSE inverse_n(m)

-----------------------------------------------------------------------------
(* Vector operations on one vector, drawn in the initial state. *)

\* Largest vector length explored.
MaxN == 4

\* The scalars vectors are built from and divided by: zero, two ordinary
\* values and, for the floating-point types, one far below every epsilon.
FloatScalars == {Zero, Num(3), Num(-4), Dec(1, -11)}

IntScalars == {IntNum(0), IntNum(3), IntNum(-4)}

Scalars(T) == IF IsFloatType(T) THEN FloatScalars ELSE IntScalars

VecInputs ==
    UNION { { Vec(T, d) : d \in [1..N -> Scalars(T)] } : <<T, N>> \in ElemTypes \X (1..MaxN) }

InitVec ==
    /\ build \in Builds
    /\ vec \in VecInputs
    /\ mat = IdleMat
    /\ other = IdleMat
    /\ ret = NoRet
    /\ op = NoOp
    /\ trap = FALSE
    /\ tc = IdleTc
    /\ prof = IdleProf
    /\ thr = IdleThr
    /\ calls = 0
    /\ scene = IdleScene
    /\ timers = <<>>
    /\ hist = NoHist
    /\ logger = IdleLogger

\* v /= scalar
VecDivAssign ==
    /\ op = NoOp
    /\ \E scalar \in Scalars(vec.T) :
          /\ vec' = Vector_div_assign_scalar(build, vec, scalar)
          /\ op' = <<"Vector::operator/=", vec, scalar>>
    /\ UNCHANGED <<build, mat, other, ret, trap, tc, prof, thr, calls, scene, timers, hist, logger>>

\* r = v / scalar
VecDiv ==
    /\ op = NoOp
    /\ \E scalar \in Scalars(vec.T) :
          /\ ret' = Vector_div_scalar(build, vec, scalar)
          /\ op' = <<"Vector::operator/", vec, scalar>>
    /\ UNCHANGED <<build, vec, mat, other, trap, tc, prof, thr, calls, scene, timers, hist, logger>>

\* v.normalize(): a failed assertion stops the program before the division.
VecNormalize ==
    /\ op = NoOp
    /\ IsFloatType(vec.T)
    /\ op' = <<"Vector::normalize", vec>>
    /\ IF AssertFails(build, Vector_normalize_asserts(build, vec))
       THEN trap' = TRUE /\ vec' = vec
       ELSE trap' = trap /\ vec' = Vector_normalize(build, vec)
    /\ UNCHANGED <<build, mat, other, ret, tc, prof, thr, calls, scene, timers, hist, logger>>

\* r = v.normalized()
VecNormalized ==
    /\ op = NoOp
    /\ IsFloatType(vec.T)
    /\ op' = <<"Vector::normalized", vec>>
    /\ IF AssertFails(build, Vector_normalize_asserts(build, vec))
       THEN trap' = TRUE /\ ret' = ret
       ELSE trap' = trap /\ ret' = Vector_normalized(build, vec)
    /\ UNCHANGED <<build, vec, mat, other, tc, prof, thr, calls, scene, timers, hist, logger>>

NextVec == VecDivAssign \/ VecDiv \/ VecNormalize \/ VecNormalized

SpecVec == InitVec /\ [][NextVec]_vars

\* The vector an operation produced: the object itself for the assigning
\* forms, the returned value for the others.
VecResult ==
    IF op[1] \in {"Vector::operator/=", "Vector::normalize"} THEN vec ELSE ret

\* C1: dividing any vector by the zero scalar, with / or /=, on the generic
\* path and on the <f32, 4> and <f64, 4> specialisations, yields the zero
\* vector; no component becomes Inf or NaN.
C1_DivisionByZeroYieldsZeroVector ==
    (op[1] \in {"Vector::operator/=", "Vector::operator/"} /\ FEq(op[3], Zero))
        => VecResult = Vector_zero(op[2].T, op[2].N)

\* C2: normalize() and normalized() of a floating-point vector whose length
\* is below the small epsilon, the zero vector included, produce the zero
\* vector and never trap.
C2_NormalizeBelowEpsilonYieldsZeroVector ==
    (/\ op[1] \in {"Vector::normalize", "Vector::normalized"}
     /\ FLt(Vector_length(build, op[2]), PRECISION_EPSILON))
        => (~trap /\ VecResult = Vector_zero(op[2].T, op[2].N))

-----------------------------------------------------------------------------
(* Matrix operations on one matrix, drawn in the initial state from a      *)
(* family of matrices, with a right-hand operand chosen by the operation.  *)

\* Largest coefficient of the linear family of matrix inputs.
MaxSeed == 1

\* Largest square matrix explored; sizes above 4 take the Gauss-Jordan and
\* LU paths.
MaxDim == 5

\* A magnitude at which adding 1 is lost to rounding in either direction.
Big == Dec(1, Digits + 1)

MatKinds == {"lin", "dup", "alt", "nan", "tiny"}

\* "lin": element (r, c) is a*r + b*c, plus d on the diagonal;
\* "dup": the same with row 1 a copy of row 0;
\* "alt": columns Big, 1, -Big, 1, ...;
\* "nan": r + c with a NaN at (0, 0);
\* "tiny": 10^-11 on the diagonal, below every epsilon, and 0 elsewhere.
MatSeeds ==
    { s \in [a : 0..MaxSeed, b : 0..MaxSeed, d : 0..MaxSeed, kind : MatKinds] :
        s.kind \in {"alt", "nan", "tiny"} => (s.a = 0 /\ s.b = 0 /\ s.d = 0) }

MatElem(T, s, r, c) ==
    LET rr == IF s.kind = "dup" /\ r = 1 THEN 0 ELSE r
    IN  IF s.kind = "alt"
        THEN (IF c % 2 = 1 THEN One ELSE IF c % 4 = 0 THEN Big ELSE FNeg(Big))
        ELSE IF s.kind = "nan"
        THEN (IF r = 0 /\ c = 0 THEN NaN ELSE Lit(T, r + c))
        ELSE IF s.kind = "tiny"
        THEN (IF r = c THEN Dec(1, -11) ELSE Zero)
        ELSE Lit(T, s.a * rr + s.b * c + (IF rr = c THEN s.d ELSE 0))

MatInput(T, R, C, s) ==
    MatOf(T, R, C, [r \in 0..(R - 1), c \in 0..(C - 1) |-> MatElem(T, s, r, c)])

SeedsOf(T) == { s \in MatSeeds : s.kind \in {"alt", "nan", "tiny"} => IsFloatType(T) }

MatShapes == { <<n, n>> : n \in 1..MaxDim } \cup { <<2, 3>> }

MatInputs ==
    UNION { { MatInput(T, sh[1], sh[2], s) : s \in SeedsOf(T) } :
            <<T, sh>> \in ElemTypes \X MatShapes }

\* Right-hand operands of R rows and C columns for a matrix of type T.
Partners(T, R, C) ==
    { MatInput(T, R, C, s) :
        s \in { t \in SeedsOf(T) :
                  \/ t.kind = "lin" /\ t.a = 1 /\ t.b = 1 /\ t.d = 1
                  \/ t.kind = "lin" /\ t.a = 1 /\ t.b = 0 /\ t.d = 1
                  \/ t.kind = "lin" /\ t.a = 0 /\ t.b = 0 /\ t.d = 1
                  \/ t.kind = "alt" } }

InitMat ==
    /\ build \in Builds
    /\ mat \in MatInputs
    /\ other = IdleMat
    /\ vec = IdleVec
    /\ ret = NoRet
    /\ op = NoOp
    /\ trap = FALSE
    /\ tc = IdleTc
    /\ prof = IdleProf
    /\ thr = IdleThr
    /\ calls = 0
    /\ scene = IdleScene
    /\ timers = <<>>
    /\ hist = NoHist
    /\ logger = IdleLogger

\* m /= scalar
MatDivAssign ==
    /\ op = NoOp
    /\ \E scalar \in Scalars(mat.T) :
          /\ mat' = Matrix_div_assign_scalar(build, mat, scalar)
          /\ op' = <<"Matrix::operator/=", mat, scalar>>
    /\ UNCHANGED <<build, vec, other, ret, trap, tc, prof, thr, calls, scene, timers, hist, logger>>

\* r = m / scalar
MatDiv ==
    /\ op = NoOp
    /\ \E scalar \in Scalars(mat.T) :
          /\ ret' = Matrix_div_scalar(build, mat, scalar)
          /\ op' = <<"Matrix::operator/", mat, scalar>>
    /\ UNCHANGED <<build, vec, mat, other, trap, tc, prof, thr, calls, scene, timers, hist, logger>>

\* r = m + o
MatAdd ==
    /\ op = NoOp
    /\ \E o \in Partners(mat.T, mat.Rows, mat.Cols) :
          /\ other' = o
          /\ ret' = Matrix_add(build, mat, o)
    /\ op' = <<"Matrix::operator+">>
    /\ UNCHANGED <<build, vec, mat, trap, tc, prof, thr, calls, scene, timers, hist, logger>>

\* r = m * o, o with as many rows as m has columns
MatMul ==
    /\ op = NoOp
    /\ \E o \in Partners(mat.T, mat.Cols, mat.Rows) :
          /\ other' = o
          /\ ret' = Matrix_mul(build, mat, o)
    /\ op' = <<"Matrix::operator*">>
    /\ UNCHANGED <<build, vec, mat, trap, tc, prof, thr, calls, scene, timers, hist, logger>>

\* r = (m == o), o a different matrix or a copy of m
MatEq ==
    /\ op = NoOp
    /\ \E o \in Partners(mat.T, mat.Rows, mat.Cols) \cup {mat} :
          /\ other' = o
          /\ ret' = Matrix_eq(build, mat, o)
    /\ op' = <<"Matrix::operator==">>
    /\ UNCHANGED <<build, vec, mat, trap, tc, prof, thr, calls, scene, timers, hist, logger>>

\* r = m.transpose()
MatTranspose ==
    /\ op = NoOp
    /\ ret' = Matrix_transpose(build, mat)
    /\ op' = <<"Matrix::transpose">>
    /\ UNCHANGED <<build, vec, mat, other, trap, tc, prof, thr, calls, scene, timers, hist, logger>>

\* r = m.determinant(), which requires a square matrix
MatDeterminant ==
    /\ op = NoOp
    /\ mat.Rows = mat.Cols
    /\ IsFloatType(mat.T) \/ mat.Rows <= 4
    /\ ret' = Matrix_determinant(mat)
    /\ op' = <<"Matrix::determinant">>
    /\ UNCHANGED <<build, vec, mat, other, trap, tc, prof, thr, calls, scene, timers, hist, logger>>

\* r = m.inverse(), which requires a square floating-point matrix
MatInverse ==
    /\ op = NoOp
    /\ mat.Rows = mat.Cols
    /\ IsFloatType(mat.T)
    /\ ret' = Matrix_inverse(mat)
    /\ op' = <<"Matrix::inverse">>
    /\ UNCHANGED <<build, vec, mat, other, trap, tc, prof, thr, calls, scene, timers, hist, logger>>

\* r = (m.transpose().transpose() == m); other is m.transpose().transpose()
MatRoundTrip ==
    /\ op = NoOp
    /\ \E twice \in {Matrix_transpose(build, Matrix_transpose(build, mat))} :
          /\ other' = twice
          /\ ret' = Matrix_eq(build, twice, mat)
    /\ op' = <<"transpose(transpose(m)) == m">>
    /\ UNCHANGED <<build, vec, mat, trap, tc, prof, thr, calls, scene, timers, hist, logger>>

NextMat ==
    \/ MatDivAssign
    \/ MatDiv
    \/ MatAdd
    \/ MatMul
    \/ MatEq
    \/ MatTranspose
    \/ MatDeterminant
    \/ MatInverse
    \/ MatRoundTrip

SpecMat == InitMat /\ [][NextMat]_vars

\* The matrix an operation produced: the object itself for /=, the returned
\* value for the others.
MatResult == IF op[1] = "Matrix::operator/=" THEN mat ELSE ret

\* C3: m /= T{0} leaves every element of m unchanged and m / T{0} equals m,
\* for every matrix type including Matrix<f32, 4, 4> and Matrix<f64, 4, 4>.
C3_DivisionByZeroLeavesMatrixUnchanged ==
    (op[1] \in {"Matrix::operator/=", "Matrix::operator/"} /\ FEq(op[3], Zero))
        => MatResult = op[2]

\* Two rows of m hold the same finite values, so that det(m) is exactly 0.
HasIdenticalRows(m) ==
    \E r1, r2 \in 0..(m.Rows - 1) :
        /\ r1 < r2
        /\ \A c \in 0..(m.Cols - 1) : IsFinite(At(m, r1, c)) /\ At(m, r1, c) = At(m, r2, c)

\* C6: the inverse of a square floating-point matrix whose determinant is
\* exactly 0, here one with two identical rows, is the all-zero matrix at
\* every size.
C6_SingularInverseIsZeroMatrix ==
    (op[1] = "Matrix::inverse" /\ HasIdenticalRows(mat))
        => ret = Matrix_zero(mat.T, mat.Rows, mat.Cols)

\* C23: inverse() applies the singularity check of determinant(): inverse(A)
\* is the all-zero fallback exactly when determinant(A) is exactly 0.
C23_InverseFallbackIffDeterminantZero ==
    op[1] = "Matrix::inverse" =>
        (ret = Matrix_zero(mat.T, mat.Rows, mat.Cols) <=> FEq(Matrix_determinant(mat), Zero))

\* Every element of m and o is an integer and, for every element of the
\* product, the magnitudes of the products summed stay below 10^Digits: every
\* product and every partial sum, in any order, is exactly representable.
ExactProducts(m, o) ==
    /\ \A i \in 1..Len(m.m_data) :
          IsFinite(m.m_data[i]) /\ m.m_data[i][3] >= 0 /\ Top(m.m_data[i]) <= Digits
    /\ \A i \in 1..Len(o.m_data) :
          IsFinite(o.m_data[i]) /\ o.m_data[i][3] >= 0 /\ Top(o.m_data[i]) <= Digits
    /\ \A i \in 0..(m.Rows - 1), j \in 0..(o.Cols - 1) :
          LET mag[k \in 0..m.Cols] ==
                  IF k = 0 THEN 0
                  ELSE mag[k - 1] + IAbs(IntVal(At(m, i, k - 1)) * IntVal(At(o, k - 1, j)))
          IN  mag[m.Cols] < Pow10(Digits)

\* The result of the last operation equals what the scalar loop computes on
\* the same operands; products are compared only where exact holds.
SseEqualsScalar(exact) ==
    CASE op[1] = "Matrix::operator+"  -> ret = Matrix_add_scalar_loop(mat, other)
      [] op[1] = "Matrix::operator=="  -> ret = Matrix_eq_scalar_loop(mat, other)
      [] op[1] = "Matrix::transpose"   -> ret = Matrix_transpose_scalar_loop(mat)
      [] op[1] = "Matrix::operator*"   -> exact => ret = multiply_naive(mat, other)
      [] OTHER                         -> TRUE

\* C7 as stated: for Matrix<f32, 4, 4> the SSE branch of +, *, == and
\* transpose returns what the scalar loop returns on the same exactly
\* representable inputs.
C7_SseEqualsScalarOnRepresentableInputs ==
    (IsF32x4x4(mat) /\ build.sse42) => SseEqualsScalar(TRUE)

\* C7, amended: for Matrix<f32, 4, 4> the SSE branch of +, == and transpose
\* returns exactly what the scalar loop returns, and so does * whenever every
\* product and partial sum is exactly representable.
C7_SseEqualsScalarWhereExact ==
    (IsF32x4x4(mat) /\ build.sse42) => SseEqualsScalar(ExactProducts(mat, other))

\* An SSE product of two non-trivial matrices with exact sums, the right
\* one not symmetric.
C7_Witness ==
    /\ IsF32x4x4(mat) /\ build.sse42
    /\ op[1] = "Matrix::operator*"
    /\ ExactProducts(mat, other)
    /\ other # Matrix_transpose_scalar_loop(other)
    /\ ret # mat /\ ret # other /\ ret # Matrix_zero("f32", 4, 4)
    /\ ret # Matrix_transpose_scalar_loop(ret)

HasNaN(m) == \E i \in 1..Len(m.m_data) : IsNaN(m.m_data[i])

\* C18 as stated: for every matrix A of every shape, the specialised 4x4
\* transposes included, transpose(transpose(A)) == A is true.
C18_TransposeTwiceEqualsOriginal ==
    op[1] = "transpose(transpose(m)) == m" => ret = TRUE

\* C18, amended: transpose(transpose(A)) holds exactly the elements of A,
\* each at its place, and transpose(transpose(A)) == A is true whenever no
\* element of A is NaN.
C18_TransposeTwiceRestoresElements ==
    op[1] = "transpose(transpose(m)) == m" =>
        /\ other = mat
        /\ ~HasNaN(mat) => ret = TRUE

\* The round trip of a Matrix<f32, 4, 4> that is not symmetric through the
\* SSE transpose.
C18_Witness ==
    /\ op[1] = "transpose(transpose(m)) == m"
    /\ IsF32x4x4(mat) /\ build.sse42
    /\ mat # Matrix_transpose_scalar_loop(mat)
    /\ ret = TRUE

-----------------------------------------------------------------------------
(* Matrix * Matrix over shapes on both sides of the selection threshold    *)
(* and of the block size.                                                   *)

\* A dimension one past the block size: the last block is a partial one.
BigDim == blockSize + 1

\* Dimensions around the selection threshold; 4 reaches the specialisations.
SmallDims == {4, BlockedThreshold, BlockedThreshold + 1}

\* <<Rows, Cols, OtherCols>>: every combination of the small dimensions, and
\* the shapes with one dimension beyond the block size and the other two
\* just above the threshold.
MulShapes ==
    (SmallDims \X SmallDims \X SmallDims) \cup
    { sh \in {BlockedThreshold + 1, BigDim} \X {BlockedThreshold + 1, BigDim}
                                             \X {BlockedThreshold + 1, BigDim} :
        Cardinality({ i \in 1..3 : sh[i] = BigDim }) = 1 }

\* Left operands: element (r, c) is a*r + c, plus 1 on the diagonal.
MulSeeds == { s \in MatSeeds : s.kind = "lin" /\ s.b = 1 /\ s.d = 1 }

\* No assertion is involved in a product: the release builds are explored.
MulBuilds == { b \in Builds : ~b.debug }

\* The right operand: element (r, c) is r + c, plus 1 on the diagonal.
MulPartner(T, R, C) == MatInput(T, R, C, [a |-> 1, b |-> 1, d |-> 1, kind |-> "lin"])

InitMul ==
    /\ build \in MulBuilds
    /\ \E T \in ElemTypes, sh \in MulShapes, s \in MulSeeds :
          /\ mat = MatInput(T, sh[1], sh[2], s)
          /\ other = MulPartner(T, sh[2], sh[3])
    /\ vec = IdleVec
    /\ ret = NoRet
    /\ op = NoOp
    /\ trap = FALSE
    /\ tc = IdleTc
    /\ prof = IdleProf
    /\ thr = IdleThr
    /\ calls = 0
    /\ scene = IdleScene
    /\ timers = <<>>
    /\ hist = NoHist
    /\ logger = IdleLogger

\* r = m * o through Matrix::operator*
MulOperator ==
    /\ op = NoOp
    /\ ret' = Matrix_mul(build, mat, other)
    /\ op' = <<"Matrix::operator*", Matrix_mul_algorithm(build, mat, other)>>
    /\ UNCHANGED <<build, vec, mat, other, trap, tc, prof, thr, calls, scene, timers, hist, logger>>

\* r = m.multiply_blocked(o)
MulBlocked ==
    /\ op = NoOp
    /\ ret' = multiply_blocked(mat, other)
    /\ op' = <<"Matrix::multiply_blocked">>
    /\ UNCHANGED <<build, vec, mat, other, trap, tc, prof, thr, calls, scene, timers, hist, logger>>

\* r = m.multiply_naive(o)
MulNaive ==
    /\ op = NoOp
    /\ ret' = multiply_naive(mat, other)
    /\ op' = <<"Matrix::multiply_naive">>
    /\ UNCHANGED <<build, vec, mat, other, trap, tc, prof, thr, calls, scene, timers, hist, logger>>

NextMul == MulOperator \/ MulBlocked \/ MulNaive

SpecMul == InitMul /\ [][NextMul]_vars

\* Rows, Cols and OtherCols of the last product all exceed n.
AllDimsExceed(n) == mat.Rows > n /\ mat.Cols > n /\ other.Cols > n

\* C8 as stated: operator* runs the blocked algorithm exactly when Rows, Cols
\* and OtherCols all exceed 32, and the naive triple loop otherwise (the 4x4
\* f32 and f64 products, which have a branch of their own, left aside).
C8_BlockedIffAllDimsExceed32 ==
    (op[1] = "Matrix::operator*" /\ ~IsF32x4x4(mat) /\ ~IsF64x4x4(mat))
        => /\ (op[2] = "blocked") <=> AllDimsExceed(32)
           /\ (op[2] = "naive") <=> ~AllDimsExceed(32)

\* C8, amended: operator* runs the blocked algorithm exactly when Rows, Cols
\* and OtherCols all exceed 8; every other shape takes the naive triple loop,
\* except a 4x4 f32 or f64 product in a build with its SIMD branch.
C8_BlockedIffAllDimsExceed8 ==
    op[1] = "Matrix::operator*"
        => /\ (op[2] = "blocked") <=> AllDimsExceed(8)
           /\ (op[2] = "naive") <=>
                  /\ ~AllDimsExceed(8)
                  /\ ~(IsF32x4x4(mat) /\ build.sse42 /\ other.Cols = 4)
                  /\ ~(IsF64x4x4(mat) /\ build.avx2)

\* A product with all dimensions between 9 and 32 that ran the blocked
\* algorithm.
C8_Witness ==
    /\ op[1] = "Matrix::operator*"
    /\ op[2] = "blocked"
    /\ AllDimsExceed(8)
    /\ ~AllDimsExceed(32)
    /\ ret = multiply_blocked(mat, other)

\* C9: multiply_blocked and multiply_naive return the same product, element
\* for element, for every pair of conformable matrices, dimensions that are
\* no multiple of the block size included.
C9_BlockedEqualsNaive ==
    /\ op[1] = "Matrix::multiply_blocked" => ret = multiply_naive(mat, other)
    /\ op[1] = "Matrix::multiply_naive" => ret = multiply_blocked(mat, other)

\* A blocked product whose inner dimension spans a full and a partial block.
C9_Witness ==
    /\ op[1] = "Matrix::multiply_blocked"
    /\ mat.Cols > blockSize /\ mat.Cols % blockSize # 0
    /\ ret # Matrix_zero(mat.T, mat.Rows, other.Cols)
    /\ ret = multiply_naive(mat, other)

-----------------------------------------------------------------------------
(* Quaternion<f32>: m_components, the sequence <<w, x, y, z>>. *)

\* Quaternion()
Quaternion_identity == <<One, Zero, Zero, Zero>>

\* Quaternion::length_squared
Quaternion_length_squared(q) ==
    FAdd(FAdd(FAdd(FMul(q[1], q[1]), FMul(q[2], q[2])), FMul(q[3], q[3])), FMul(q[4], q[4]))

\* Quaternion::length
Quaternion_length(q) == FSqrt(Quaternion_length_squared(q))

\* Quaternion::normalize as it would be with an empty body.
Quaternion_normalize_nothing(q) == q

\* Quaternion::normalize: returns early when the length is at most EPSILON,
\* multiplies the components by 1 / length otherwise.
Quaternion_normalize(q) ==
    LET len    == Quaternion_length(q)
        invLen == FDiv(One, len)
    IN  IF FLe(len, EPSILON) THEN q
        ELSE [i \in 1..4 |-> FMul(q[i], invLen)]

\* rotate(Quaternion const&): the rotation matrix of q.
rotate(q) ==
    LET w  == q[1]
        x  == q[2]
        y  == q[3]
        z  == q[4]
        w2 == FMul(w, w)
        x2 == FMul(x, x)
        y2 == FMul(y, y)
        z2 == FMul(z, z)
        wx == FMul(w, x)
        wy == FMul(w, y)
        wz == FMul(w, z)
        xy == FMul(x, y)
        xz == FMul(x, z)
        yz == FMul(y, z)
    IN  Mat("f32", 4, 4,
            <<FSub(FSub(FAdd(w2, x2), y2), z2), FMul(Two, FSub(xy, wz)), FMul(Two, FAdd(xz, wy)), Zero,
              FMul(Two, FAdd(xy, wz)), FSub(FAdd(FSub(w2, x2), y2), z2), FMul(Two, FSub(yz, wx)), Zero,
              FMul(Two, FSub(xz, wy)), FMul(Two, FAdd(yz, wx)), FAdd(FSub(FSub(w2, x2), y2), z2), Zero,
              Zero, Zero, Zero, One>>)

\* translate(Vector<T, 3> const&): the identity with the translation in the
\* last column.
translate(v) ==
    MatOf("f32", 4, 4,
          [r \in 0..3, c \in 0..3 |->
              IF c = 3 /\ r < 3 THEN v.m_data[r + 1] ELSE IF r = c THEN One ELSE Zero])

\* scale(Vector<T, 3> const&): the identity with the factors on the diagonal.
scale(v) ==
    MatOf("f32", 4, 4,
          [r \in 0..3, c \in 0..3 |->
              IF r = c /\ r < 3 THEN v.m_data[r + 1] ELSE IF r = c THEN One ELSE Zero])

\* Matrix::row(i) followed by xyz(): the first three elements of row i.
RowXyz(m, i) == Vec(m.T, <<At(m, i, 0), At(m, i, 1), At(m, i, 2)>>)

\* Vector::operator-() const
Vector_neg(v) == [v EXCEPT !.m_data = [i \in 1..v.N |-> FNeg(v.m_data[i])]]

-----------------------------------------------------------------------------
(* TransformComponent: a record of its data members. *)

\* The default member initialisers of the class.
TransformComponent_members ==
    [ m_position              |-> Vec("f32", <<Zero, Zero, Zero>>),
      m_rotation              |-> Quaternion_identity,
      m_scale                 |-> Vec("f32", <<One, One, One>>),
      m_isWorldMatrixDirty    |-> TRUE,
      m_worldMatrix           |-> Matrix_identity("f32", 4),
      m_inverseWorldMatrix    |-> Matrix_identity("f32", 4),
      m_isRotationMatrixDirty |-> TRUE,
      m_rotationMatrix        |-> Matrix_identity("f32", 4) ]

\* translationMatrix * rotationMatrix * scaleMatrix of update_world_matrix.
WorldMatrixOf(b, position, rotation, scl) ==
    Matrix_mul(b, Matrix_mul(b, translate(position), rotate(rotation)), scale(scl))

\* update_world_matrix as it would be without the assignment to
\* m_inverseWorldMatrix.
update_world_matrix_only(b, t) ==
    IF ~t.m_isWorldMatrixDirty THEN t
    ELSE [t EXCEPT !.m_worldMatrix = WorldMatrixOf(b, t.m_position, t.m_rotation, t.m_scale),
                   !.m_isWorldMatrixDirty = FALSE]

\* TransformComponent::update_world_matrix
update_world_matrix(b, t) ==
    IF ~t.m_isWorldMatrixDirty THEN t
    ELSE CHOOSE updated \in
             { [t EXCEPT !.m_worldMatrix = world,
                         !.m_inverseWorldMatrix = Matrix_inverse(world),
                         !.m_isWorldMatrixDirty = FALSE] :
                 world \in {WorldMatrixOf(b, t.m_position, t.m_rotation, t.m_scale)} } : TRUE

\* TransformComponent::update_rotation_matrix
update_rotation_matrix(t) ==
    IF ~t.m_isRotationMatrixDirty THEN t
    ELSE [t EXCEPT !.m_rotationMatrix = rotate(t.m_rotation),
                   !.m_isRotationMatrixDirty = FALSE]

\* TransformComponent::mark_world_matrix_dirty
mark_world_matrix_dirty(t) == [t EXCEPT !.m_isWorldMatrixDirty = TRUE]

\* TransformComponent::mark_rotation_matrix_dirty
mark_rotation_matrix_dirty(t) == [t EXCEPT !.m_isRotationMatrixDirty = TRUE]

\* TransformComponent::TransformComponent()
TransformComponent_default(b) ==
    LET t == [TransformComponent_members EXCEPT
                  !.m_rotation = Quaternion_normalize(TransformComponent_members.m_rotation)]
    IN  update_rotation_matrix(update_world_matrix(b, t))

\* TransformComponent::TransformComponent(position, rotation, scale)
TransformComponent_ctor(b, position, rotation, scl) ==
    LET t == [TransformComponent_members EXCEPT
                  !.m_position = position,
                  !.m_rotation = Quaternion_normalize(rotation),
                  !.m_scale = scl]
    IN  update_world_matrix(b, update_rotation_matrix(t))

\* TransformComponent::set_position
set_position(t, position) == mark_world_matrix_dirty([t EXCEPT !.m_position = position])

\* set_rotation as it would be without the call of
\* mark_rotation_matrix_dirty.
set_rotation_unmarked(t, rotation) ==
    mark_world_matrix_dirty([t EXCEPT !.m_rotation = Quaternion_normalize(rotation)])

\* TransformComponent::set_rotation
set_rotation(t, rotation) ==
    mark_rotation_matrix_dirty(
        mark_world_matrix_dirty([t EXCEPT !.m_rotation = Quaternion_normalize(rotation)]))

\* set_scale as it would be without the call of mark_world_matrix_dirty.
set_scale_unmarked(t, scl) == [t EXCEPT !.m_scale = scl]

\* TransformComponent::set_scale
set_scale(t, scl) == mark_world_matrix_dirty([t EXCEPT !.m_scale = scl])

\* TransformComponent::get_world_matrix: <<the object afterwards, the result>>.
get_world_matrix(b, t) ==
    CHOOSE result \in
        { <<u, u.m_worldMatrix>> :
            u \in {IF t.m_isWorldMatrixDirty THEN update_world_matrix(b, t) ELSE t} } : TRUE

\* TransformComponent::get_inverse_world_matrix
get_inverse_world_matrix(b, t) ==
    CHOOSE result \in
        { <<u, u.m_inverseWorldMatrix>> :
            u \in {IF t.m_isWorldMatrixDirty THEN update_world_matrix(b, t) ELSE t} } : TRUE

\* TransformComponent::get_rotation
get_rotation(t) == t.m_rotation

\* TransformComponent::get_forward
get_forward(t) ==
    CHOOSE result \in
        { <<u, Vector_neg(RowXyz(u.m_rotationMatrix, 2))>> :
            u \in {IF t.m_isRotationMatrixDirty THEN update_rotation_matrix(t) ELSE t} } : TRUE

\* TransformComponent::get_right
get_right(t) ==
    CHOOSE result \in
        { <<u, RowXyz(u.m_rotationMatrix, 0)>> :
            u \in {IF t.m_isRotationMatrixDirty THEN update_rotation_matrix(t) ELSE t} } : TRUE

\* TransformComponent::get_up
get_up(t) ==
    CHOOSE result \in
        { <<u, RowXyz(u.m_rotationMatrix, 1)>> :
            u \in {IF t.m_isRotationMatrixDirty THEN update_rotation_matrix(t) ELSE t} } : TRUE

-----------------------------------------------------------------------------
(* One TransformComponent, constructed in the initial state and then       *)
(* written and read in any order.                                           *)

\* Longest sequence of operations explored after construction.
MaxCalls == 2

PositionInputs == { Vec("f32", <<Zero, Zero, Zero>>), Vec("f32", <<Num(1), Num(2), Num(3)>>) }

ScaleInputs == { Vec("f32", <<One, One, One>>), Vec("f32", <<Num(2), Num(3), Num(4)>>) }

\* Rotation arguments: unit, non-unit with exact and with rounded
\* normalisation, zero, shorter than EPSILON, and not finite.
RotationInputs ==
    { Quaternion_identity,
      <<Zero, Num(3), Zero, Num(4)>>,
      <<Num(1), Num(2), Num(3), Num(4)>>,
      <<Zero, Zero, Zero, Zero>>,
      <<Dec(1, -7), Zero, Zero, Zero>>,
      <<PosInf, Zero, Zero, Zero>> }

InitTransform ==
    /\ build \in Builds
    /\ \/ /\ tc = TransformComponent_default(build)
          /\ op = <<"TransformComponent", Quaternion_identity>>
       \/ \E position \in PositionInputs, rotation \in RotationInputs, scl \in ScaleInputs :
             /\ tc = TransformComponent_ctor(build, position, rotation, scl)
             /\ op = <<"TransformComponent", rotation>>
    /\ vec = IdleVec
    /\ mat = IdleMat
    /\ other = IdleMat
    /\ ret = NoRet
    /\ trap = FALSE
    /\ prof = IdleProf
    /\ thr = IdleThr
    /\ calls = 0
    /\ scene = IdleScene
    /\ timers = <<>>
    /\ hist = NoHist
    /\ logger = IdleLogger

SetPosition ==
    /\ calls < MaxCalls
    /\ \E position \in PositionInputs : tc' = set_position(tc, position)
    /\ op' = <<"set_position">>
    /\ ret' = NoRet
    /\ calls' = calls + 1
    /\ UNCHANGED <<build, vec, mat, other, trap, prof, thr, scene, timers, hist, logger>>

SetRotation ==
    /\ calls < MaxCalls
    /\ \E rotation \in RotationInputs :
          /\ tc' = set_rotation(tc, rotation)
          /\ op' = <<"set_rotation", rotation>>
    /\ ret' = NoRet
    /\ calls' = calls + 1
    /\ UNCHANGED <<build, vec, mat, other, trap, prof, thr, scene, timers, hist, logger>>

SetScale ==
    /\ calls < MaxCalls
    /\ \E scl \in ScaleInputs : tc' = set_scale(tc, scl)
    /\ op' = <<"set_scale">>
    /\ ret' = NoRet
    /\ calls' = calls + 1
    /\ UNCHANGED <<build, vec, mat, other, trap, prof, thr, scene, timers, hist, logger>>

\* The operation name is recorded with whether the cache was dirty.
GetWorldMatrix ==
    /\ calls < MaxCalls
    /\ \E result \in {get_world_matrix(build, tc)} :
          /\ tc' = result[1]
          /\ ret' = result[2]
    /\ op' = <<"get_world_matrix", tc.m_isWorldMatrixDirty>>
    /\ calls' = calls + 1
    /\ UNCHANGED <<build, vec, mat, other, trap, prof, thr, scene, timers, hist, logger>>

GetInverseWorldMatrix ==
    /\ calls < MaxCalls
    /\ \E result \in {get_inverse_world_matrix(build, tc)} :
          /\ tc' = result[1]
          /\ ret' = result[2]
    /\ op' = <<"get_inverse_world_matrix", tc.m_isWorldMatrixDirty>>
    /\ calls' = calls + 1
    /\ UNCHANGED <<build, vec, mat, other, trap, prof, thr, scene, timers, hist, logger>>

GetRotation ==
    /\ calls < MaxCalls
    /\ ret' = get_rotation(tc)
    /\ op' = <<"get_rotation">>
    /\ calls' = calls + 1
    /\ UNCHANGED <<build, vec, mat, other, trap, tc, prof, thr, scene, timers, hist, logger>>

GetForward ==
    /\ calls < MaxCalls
    /\ \E result \in {get_forward(tc)} :
          /\ tc' = result[1]
          /\ ret' = result[2]
    /\ op' = <<"get_forward">>
    /\ calls' = calls + 1
    /\ UNCHANGED <<build, vec, mat, other, trap, prof, thr, scene, timers, hist, logger>>

GetRight ==
    /\ calls < MaxCalls
    /\ \E result \in {get_right(tc)} :
          /\ tc' = result[1]
          /\ ret' = result[2]
    /\ op' = <<"get_right">>
    /\ calls' = calls + 1
    /\ UNCHANGED <<build, vec, mat, other, trap, prof, thr, scene, timers, hist, logger>>

GetUp ==
    /\ calls < MaxCalls
    /\ \E result \in {get_up(tc)} :
          /\ tc' = result[1]
          /\ ret' = result[2]
    /\ op' = <<"get_up">>
    /\ calls' = calls + 1
    /\ UNCHANGED <<build, vec, mat, other, trap, prof, thr, scene, timers, hist, logger>>

NextTransform ==
    \/ SetPosition
    \/ SetRotation
    \/ SetScale
    \/ GetWorldMatrix
    \/ GetInverseWorldMatrix
    \/ GetRotation
    \/ GetForward
    \/ GetRight
    \/ GetUp

SpecTransform == InitTransform /\ [][NextTransform]_vars

\* C4: whenever get_world_matrix has returned, the matrix it returned is
\* translate(position) * rotate(rotation) * scale(scale) of the position,
\* rotation and scale the component holds; and whenever the cache is marked
\* clean, the cached world matrix is that product, so no later read can
\* return a stale one.
C4_WorldMatrixIsCurrent ==
    /\ op[1] = "get_world_matrix"
          => ret = WorldMatrixOf(build, tc.m_position, tc.m_rotation, tc.m_scale)
    /\ ~tc.m_isWorldMatrixDirty
          => tc.m_worldMatrix = WorldMatrixOf(build, tc.m_position, tc.m_rotation, tc.m_scale)

\* A read that found the cache dirty after a set_scale and recomputed it.
C4_Witness ==
    /\ op = <<"get_world_matrix", TRUE>>
    /\ tc.m_scale = Vec("f32", <<Num(2), Num(3), Num(4)>>)
    /\ tc.m_position = Vec("f32", <<Num(1), Num(2), Num(3)>>)
    /\ ret # Matrix_identity("f32", 4)
    /\ ret = tc.m_worldMatrix

\* C24: get_inverse_world_matrix() returns exactly inverse() of the matrix
\* get_world_matrix() returns at that moment; the two cached matrices are
\* recomputed together and never reflect different position, rotation and
\* scale.
C24_InverseWorldMatrixMatchesWorldMatrix ==
    /\ op[1] = "get_inverse_world_matrix"
          => ret = Matrix_inverse(get_world_matrix(build, tc)[2])
    /\ tc.m_inverseWorldMatrix = Matrix_inverse(tc.m_worldMatrix)
    /\ ~tc.m_isWorldMatrixDirty =>
          /\ tc.m_worldMatrix = WorldMatrixOf(build, tc.m_position, tc.m_rotation, tc.m_scale)
          /\ tc.m_inverseWorldMatrix =
                Matrix_inverse(WorldMatrixOf(build, tc.m_position, tc.m_rotation, tc.m_scale))

\* A read of the inverse that found the cache dirty after a setter and
\* recomputed both matrices, for a position and a scale that are not the
\* defaults.
C24_Witness ==
    /\ op = <<"get_inverse_world_matrix", TRUE>>
    /\ calls = 2
    /\ tc.m_scale = Vec("f32", <<Num(2), Num(3), Num(4)>>)
    /\ tc.m_position = Vec("f32", <<Num(1), Num(2), Num(3)>>)
    /\ tc.m_rotation = Quaternion_identity
    /\ ret = tc.m_inverseWorldMatrix
    /\ At(ret, 0, 0) = Dec(5, -1)
    /\ At(ret, 0, 3) = Dec(-5, -1)

\* What get_right(), get_up() and get_forward() have returned, and what they
\* would return now, are row 0, row 1 and the negated row 2 of
\* rotate(current rotation).
DirectionsAreRotationRows ==
    /\ op[1] = "get_right" => ret = RowXyz(rotate(tc.m_rotation), 0)
    /\ op[1] = "get_up" => ret = RowXyz(rotate(tc.m_rotation), 1)
    /\ op[1] = "get_forward" => ret = Vector_neg(RowXyz(rotate(tc.m_rotation), 2))
    /\ get_right(tc)[2] = RowXyz(rotate(tc.m_rotation), 0)
    /\ get_up(tc)[2] = RowXyz(rotate(tc.m_rotation), 1)
    /\ get_forward(tc)[2] = Vector_neg(RowXyz(rotate(tc.m_rotation), 2))
    /\ op[1] = "set_rotation" => tc.m_rotation = Quaternion_normalize(op[2])

\* C25: get_right(), get_up() and get_forward() return row 0, row 1 and the
\* negated row 2 of rotate(current rotation); set_position and set_scale
\* change neither the rotation nor its cached matrix, and after
\* set_rotation the current rotation is the normalised argument.
C25_DirectionsFollowRotation ==
    /\ []DirectionsAreRotationRows
    /\ [][ op'[1] \in {"set_position", "set_scale"} =>
              /\ tc'.m_rotation = tc.m_rotation
              /\ tc'.m_rotationMatrix = tc.m_rotationMatrix
              /\ tc'.m_isRotationMatrixDirty = tc.m_isRotationMatrixDirty ]_vars

\* get_forward() read after a set_rotation that replaced the identity: the
\* result is no longer the forward direction of the identity.
C25_Witness ==
    /\ op[1] = "get_forward"
    /\ calls = 2
    /\ tc.m_rotation = <<Zero, Dec(6, -1), Zero, Dec(8, -1)>>
    /\ ~tc.m_isRotationMatrixDirty
    /\ ret = Vector_neg(RowXyz(tc.m_rotationMatrix, 2))
    /\ ret # Vec("f32", <<Zero, Zero, Num(-1)>>)

\* |length - 1| a quaternion of unit length may show after rounding.
UnitTolerance == Dec(1, 2 - Digits)

\* q.length() is 1 up to rounding.
IsUnitLength(q) ==
    /\ IsFinite(Quaternion_length(q))
    /\ FLe(FAbs(FSub(Quaternion_length(q), One)), UnitTolerance)

\* q.length() is finite and greater than EPSILON: normalize divides.
IsNormalizable(q) ==
    /\ IsFinite(Quaternion_length(q))
    /\ FGt(Quaternion_length(q), EPSILON)

\* C10 as stated: after construction with any rotation and after
\* set_rotation(q) for any q, the stored rotation, which get_rotation
\* returns, has unit length.
C10_StoredRotationIsUnit ==
    /\ op[1] \in {"TransformComponent", "set_rotation"} => IsUnitLength(tc.m_rotation)
    /\ op[1] = "get_rotation" => IsUnitLength(ret)

\* C10, amended: after construction with a rotation and after
\* set_rotation(q) whose length is finite and greater than EPSILON, the
\* stored rotation has unit length up to rounding; get_rotation returns the
\* stored rotation; and the stored rotation is at all times either of unit
\* length or of a length normalize does not divide by.
C10_StoredRotationIsUnitWhenNormalizable ==
    /\ (op[1] \in {"TransformComponent", "set_rotation"} /\ IsNormalizable(op[2]))
          => IsUnitLength(tc.m_rotation)
    /\ op[1] = "get_rotation" => ret = tc.m_rotation
    /\ IsUnitLength(tc.m_rotation) \/ ~IsNormalizable(tc.m_rotation)

\* set_rotation with a quaternion of length sqrt(30) stored it normalised.
C10_Witness ==
    /\ op = <<"set_rotation", <<Num(1), Num(2), Num(3), Num(4)>>>>
    /\ tc.m_rotation # op[2]
    /\ IsUnitLength(tc.m_rotation)
    /\ ~IsUnitLength(op[2])

-----------------------------------------------------------------------------
(* Profiler: the singleton of pbrt/profiling/profiler.hpp, called by       *)
(* several threads.  prof holds its members; m_mutex is the thread that     *)
(* owns the mutex, or NoThread.  Time points are not kept: the time an      *)
(* interval or a frame took is chosen when it ends, and m_activeTimers is   *)
(* the set of the names that have a start time.  A std::source_location is  *)
(* not kept either.  m_currentDepth is a u64: a value d < 0 stands for      *)
(* 2^64 + d, what the u64 holds after it wrapped around.                    *)

\* Number of threads that call the profiler.
NumThreads == 2

\* Number of calls of profiler operations in a behaviour.
MaxOps == 3

Threads == 1..NumThreads

NoThread == 0

Names == {"a", "b"}

\* What an interval or a frame may have taken, in nanoseconds.
Durations == {1, 2}

\* Stands for Duration::max(), 2^63 - 1 ns.
Duration_max == 2147483647

\* Stands for Duration::min(), -2^63 ns.
Duration_min == -2147483647

\* ProfileData's default member initialisers.
ProfileData_default ==
    [ name      |-> "",
      totalTime |-> 0,
      minTime   |-> Duration_max,
      maxTime   |-> Duration_min,
      callCount |-> 0,
      depth     |-> 0 ]

\* ProfileData::add_sample
add_sample(profile, sample) ==
    [profile EXCEPT !.totalTime = @ + sample,
                    !.minTime   = IMin(@, sample),
                    !.maxTime   = IMax(@, sample),
                    !.callCount = @ + 1]

\* Profiler's default member initialisers.
Profiler_members ==
    [ m_mutex        |-> NoThread,
      m_profiles     |-> <<>>,
      m_activeTimers |-> {},
      m_enabled      |-> TRUE,
      m_lastFrameTime |-> 0,
      m_frameCount   |-> 0,
      m_currentDepth |-> 0 ]

\* m_profiles[name] of std::unordered_map: the element, value-initialised
\* and inserted when the key is new.
MapIndex(profiles, name) ==
    IF name \in DOMAIN profiles THEN profiles
    ELSE [n \in (DOMAIN profiles) \cup {name} |->
             IF n = name THEN ProfileData_default ELSE profiles[n]]

\* The statements of Profiler::begin_profile after the lock is taken.
begin_profile(p, name) ==
    LET inserted == MapIndex(p.m_profiles, name)
        profile  == inserted[name]
        named    == IF profile.name = "" THEN [profile EXCEPT !.name = name] ELSE profile
    IN  [p EXCEPT !.m_activeTimers = @ \cup {name},
                  !.m_profiles     = [inserted EXCEPT ![name] =
                                         [named EXCEPT !.depth = p.m_currentDepth]],
                  !.m_currentDepth = @ + 1]

\* The statements of Profiler::end_profile after the lock is taken;
\* duration is endTime - timerIt->second.
end_profile(p, name, duration) ==
    LET depth == p.m_currentDepth - 1
    IN  IF name \notin p.m_activeTimers THEN [p EXCEPT !.m_currentDepth = depth]
        ELSE LET inserted == MapIndex(p.m_profiles, name)
                 profile  == inserted[name]
                 named    == IF profile.name = ""
                             THEN [profile EXCEPT !.name = name, !.depth = depth]
                             ELSE profile
             IN  [p EXCEPT !.m_currentDepth = depth,
                           !.m_activeTimers = @ \ {name},
                           !.m_profiles     = [inserted EXCEPT ![name] =
                                                  add_sample(named, duration)]]

\* The statements of Profiler::reset after the lock is taken.
reset(p) ==
    [p EXCEPT !.m_profiles      = <<>>,
              !.m_activeTimers  = {},
              !.m_frameCount    = 0,
              !.m_lastFrameTime = 0,
              !.m_currentDepth  = 0]

\* The statement of Profiler::enable after the lock is taken.
enable(p, enabled) == [p EXCEPT !.m_enabled = enabled]

\* The statements of Profiler::end_frame after the lock is taken.
end_frame(p, duration) ==
    [p EXCEPT !.m_lastFrameTime = duration, !.m_frameCount = @ + 1]

\* The results Profiler::get_sorted_profiles may return for this map: its
\* elements in an order of descending totalTime.  The order of elements of
\* equal totalTime depends on the map's iteration order and on the sort.
get_sorted_profiles(profiles) ==
    LET n == Cardinality(DOMAIN profiles)
    IN  { [i \in 1..n |-> profiles[order[i]]] \o <<>> :
            order \in { o \in [1..n -> DOMAIN profiles] :
                          /\ \A i, j \in 1..n : i # j => o[i] # o[j]
                          /\ \A i, j \in 1..n :
                                i < j => profiles[o[i]].totalTime >= profiles[o[j]].totalTime } }

\* What a get_sorted_profiles that ran while another thread wrote the map
\* may return: the copy of any part of any map over the names.
RacedResults(profiles) ==
    UNION { get_sorted_profiles([n \in S |-> profiles[n]]) : S \in SUBSET (DOMAIN profiles) }

\* A thread: pc is "idle" outside the profiler, "lock" at the
\* std::lock_guard of the operation fn, "locked" once it owns the mutex and
\* runs the statements after it, and "copying" inside a get_sorted_profiles
\* that was called from outside the profiler.  raced records that another
\* thread wrote m_profiles while this one was copying it.
Thread_idle == [pc |-> "idle", fn |-> "", name |-> "", enabled |-> FALSE, raced |-> FALSE]

\* The operations whose statements read or write m_profiles or m_activeTimers.
MapOperations ==
    {"begin_profile", "end_profile", "reset", "log_summary", "log_detailed_report"}

\* Thread t is inside statements that read or write the maps.
AccessesMaps(t) ==
    \/ thr[t].pc = "copying"
    \/ thr[t].pc = "locked" /\ thr[t].fn \in MapOperations

InitProfiler ==
    /\ prof = Profiler_members
    /\ thr = [t \in Threads |-> Thread_idle]
    /\ build \in {b \in Builds : ~b.debug /\ ~b.sse42}
    /\ vec = IdleVec
    /\ mat = IdleMat
    /\ other = IdleMat
    /\ tc = IdleTc
    /\ op = NoOp
    /\ ret = NoRet
    /\ trap = FALSE
    /\ calls = 0
    /\ scene = IdleScene
    /\ timers = <<>>
    /\ hist = NoHist
    /\ logger = IdleLogger

\* Thread t enters operation fn: an operation that begins with
\* if (!m_enabled) return; returns when the profiler is disabled, the
\* others and it otherwise go on to the lock_guard.
Enter(t, fn, name, enabled, checksEnabled) ==
    /\ calls < MaxOps
    /\ thr' = [thr EXCEPT ![t] =
                  IF checksEnabled /\ ~prof.m_enabled THEN Thread_idle
                  ELSE [pc |-> "lock", fn |-> fn, name |-> name,
                        enabled |-> enabled, raced |-> FALSE]]
    /\ op' = <<fn, t, name>>
    /\ ret' = NoRet
    /\ calls' = calls + 1
    /\ UNCHANGED <<build, vec, mat, other, trap, tc, prof, scene, timers, hist, logger>>

CallBeginProfile ==
    \E t \in Threads, name \in Names :
        /\ thr[t].pc = "idle"
        /\ Enter(t, "begin_profile", name, FALSE, TRUE)

CallEndProfile ==
    \E t \in Threads, name \in Names :
        /\ thr[t].pc = "idle"
        /\ Enter(t, "end_profile", name, FALSE, TRUE)

CallBeginFrame ==
    \E t \in Threads :
        /\ thr[t].pc = "idle"
        /\ Enter(t, "begin_frame", "", FALSE, TRUE)

CallEndFrame ==
    \E t \in Threads :
        /\ thr[t].pc = "idle"
        /\ Enter(t, "end_frame", "", FALSE, TRUE)

CallReset ==
    \E t \in Threads :
        /\ thr[t].pc = "idle"
        /\ Enter(t, "reset", "", FALSE, FALSE)

CallEnable ==
    \E t \in Threads, enabled \in BOOLEAN :
        /\ thr[t].pc = "idle"
        /\ Enter(t, "enable", "", enabled, FALSE)

CallLogSummary ==
    \E t \in Threads :
        /\ thr[t].pc = "idle"
        /\ Enter(t, "log_summary", "", FALSE, FALSE)

CallLogDetailedReport ==
    \E t \in Threads :
        /\ thr[t].pc = "idle"
        /\ Enter(t, "log_detailed_report", "", FALSE, FALSE)

\* Profiler::get_sorted_profiles called from outside: it takes no lock.
CallGetSortedProfiles ==
    \E t \in Threads :
        /\ calls < MaxOps
        /\ thr[t].pc = "idle"
        /\ thr' = [thr EXCEPT ![t] = [Thread_idle EXCEPT !.pc = "copying",
                                                         !.fn = "get_sorted_profiles"]]
        /\ op' = <<"get_sorted_profiles", t, "">>
        /\ ret' = NoRet
        /\ calls' = calls + 1
        /\ UNCHANGED <<build, vec, mat, other, trap, tc, prof, scene, timers, hist, logger>>

\* std::lock_guard lock{m_mutex}
Lock ==
    \E t \in Threads :
        /\ thr[t].pc = "lock"
        /\ prof.m_mutex = NoThread
        /\ prof' = [prof EXCEPT !.m_mutex = t]
        /\ thr' = [thr EXCEPT ![t].pc = "locked"]
        /\ UNCHANGED <<build, vec, mat, other, ret, op, trap, tc, calls, scene, timers, hist, logger>>

\* Thread t has run the statements that follow the lock_guard, which leave
\* the profiler as p, and returns; the lock_guard releases the mutex.
\* If they write m_profiles, the threads copying it have raced.
Leave(t, p, writesProfiles, result) ==
    /\ prof' = [p EXCEPT !.m_mutex = NoThread]
    /\ thr' = [u \in Threads |->
                  IF u = t THEN Thread_idle
                  ELSE IF writesProfiles /\ thr[u].pc = "copying"
                       THEN [thr[u] EXCEPT !.raced = TRUE]
                  ELSE thr[u]]
    /\ op' = <<thr[t].fn, t, thr[t].name>>
    /\ ret' = result
    /\ UNCHANGED <<build, vec, mat, other, trap, tc, calls, scene, timers, hist, logger>>

BeginProfile ==
    \E t \in Threads :
        /\ thr[t].pc = "locked"
        /\ thr[t].fn = "begin_profile"
        /\ Leave(t, begin_profile(prof, thr[t].name), TRUE, NoRet)

EndProfile ==
    \E t \in Threads, duration \in Durations :
        /\ thr[t].pc = "locked"
        /\ thr[t].fn = "end_profile"
        /\ Leave(t, end_profile(prof, thr[t].name, duration),
                 thr[t].name \in prof.m_activeTimers, NoRet)

Reset ==
    \E t \in Threads :
        /\ thr[t].pc = "locked"
        /\ thr[t].fn = "reset"
        /\ Leave(t, reset(prof), TRUE, NoRet)

Enable ==
    \E t \in Threads :
        /\ thr[t].pc = "locked"
        /\ thr[t].fn = "enable"
        /\ Leave(t, enable(prof, thr[t].enabled), FALSE, NoRet)

\* m_frameStartTime = Clock::now()
BeginFrame ==
    \E t \in Threads :
        /\ thr[t].pc = "locked"
        /\ thr[t].fn = "begin_frame"
        /\ Leave(t, prof, FALSE, NoRet)

EndFrame ==
    \E t \in Threads, duration \in Durations :
        /\ thr[t].pc = "locked"
        /\ thr[t].fn = "end_frame"
        /\ Leave(t, end_frame(prof, duration), FALSE, NoRet)

\* log_summary and log_detailed_report call get_sorted_profiles with the
\* mutex held and log what it returned.
LogSummary ==
    \E t \in Threads, sortedProfiles \in get_sorted_profiles(prof.m_profiles) :
        /\ thr[t].pc = "locked"
        /\ thr[t].fn = "log_summary"
        /\ Leave(t, prof, FALSE, sortedProfiles)

LogDetailedReport ==
    \E t \in Threads, sortedProfiles \in get_sorted_profiles(prof.m_profiles) :
        /\ thr[t].pc = "locked"
        /\ thr[t].fn = "log_detailed_report"
        /\ Leave(t, prof, FALSE, sortedProfiles)

\* The get_sorted_profiles called from outside returns.  If another thread
\* wrote the map meanwhile, the behaviour is undefined: it returns some copy
\* or the program crashes.
GetSortedProfiles ==
    \E t \in Threads :
        /\ thr[t].pc = "copying"
        /\ IF thr[t].raced
           THEN \/ ret' \in RacedResults(prof.m_profiles) /\ trap' = FALSE
                \/ ret' = NoRet /\ trap' = TRUE
           ELSE ret' \in get_sorted_profiles(prof.m_profiles) /\ trap' = FALSE
        /\ thr' = [thr EXCEPT ![t] = Thread_idle]
        /\ op' = <<"get_sorted_profiles", t, "">>
        /\ UNCHANGED <<build, vec, mat, other, tc, prof, calls, scene, timers, hist, logger>>

NextProfiler ==
    \/ CallBeginProfile
    \/ CallEndProfile
    \/ CallBeginFrame
    \/ CallEndFrame
    \/ CallReset
    \/ CallEnable
    \/ CallLogSummary
    \/ CallLogDetailedReport
    \/ CallGetSortedProfiles
    \/ Lock
    \/ BeginProfile
    \/ EndProfile
    \/ Reset
    \/ Enable
    \/ BeginFrame
    \/ EndFrame
    \/ LogSummary
    \/ LogDetailedReport
    \/ GetSortedProfiles

SpecProfiler == InitProfiler /\ [][NextProfiler]_vars

\* C5: every thread that is inside statements that read or write the
\* profile map or the active-timer map owns the mutex, so no two threads are
\* inside such statements at the same time.
C5_MapsAccessedUnderMutex ==
    /\ \A t \in Threads : AccessesMaps(t) => prof.m_mutex = t
    /\ \A t, u \in Threads : (AccessesMaps(t) /\ AccessesMaps(u)) => t = u

-----------------------------------------------------------------------------
(* The Profiler called from one thread: every operation runs from its call  *)
(* to its return before the next is called, so the mutex is free at every   *)
(* call.  timers holds the ScopedTimer objects alive; scopes nest, so the   *)
(* one constructed last is destroyed first.                                 *)

\* Number of profiler and ScopedTimer calls in a behaviour.
MaxProfCalls == 4

\* Profiler::begin_profile
Profiler_begin_profile(p, name) ==
    IF ~p.m_enabled THEN p ELSE begin_profile(p, name)

\* Profiler::end_profile
Profiler_end_profile(p, name, duration) ==
    IF ~p.m_enabled THEN p ELSE end_profile(p, name, duration)

\* Profiler::begin_frame: sets m_frameStartTime, which is not kept.
Profiler_begin_frame(p) == p

\* Profiler::end_frame as it would be without if (!m_enabled) return;
Profiler_end_frame_unchecked(p, duration) == end_frame(p, duration)

\* Profiler::end_frame
Profiler_end_frame(p, duration) ==
    IF ~p.m_enabled THEN p ELSE end_frame(p, duration)

\* Profiler::reset as it would be without m_activeTimers.clear()
Profiler_reset_keeping_timers(p) == [reset(p) EXCEPT !.m_activeTimers = p.m_activeTimers]

\* Profiler::reset
Profiler_reset(p) == reset(p)

\* Profiler::enable
Profiler_enable(p, enabled) == enable(p, enabled)

\* Profiler::is_enabled
Profiler_is_enabled(p) == p.m_enabled

\* Profiler::get_frame_count
Profiler_get_frame_count(p) == p.m_frameCount

\* Profiler::get_last_frame_time
Profiler_get_last_frame_time(p) == p.m_lastFrameTime

\* ScopedTimer::ScopedTimer(name): the object constructed.
ScopedTimer_members(p, name) == [m_name |-> name, m_active |-> Profiler_is_enabled(p)]

\* ScopedTimer::ScopedTimer(name): what it does to the profiler.
ScopedTimer_construct(p, name) ==
    IF Profiler_is_enabled(p) THEN Profiler_begin_profile(p, name) ELSE p

\* ScopedTimer::~ScopedTimer
ScopedTimer_destroy(p, timer, duration) ==
    IF timer.m_active THEN Profiler_end_profile(p, timer.m_name, duration) ELSE p

\* The callCount get_sorted_profiles reports for name; 0 when it reports no
\* profile of that name.
CallCountOf(p, name) ==
    IF name \in DOMAIN p.m_profiles THEN p.m_profiles[name].callCount ELSE 0

\* History.  before is the profiler as it was when the last call was made.
\* open[name] counts the begin_profile(name) calls made while enabled that no
\* end_profile(name) has been paired with yet, completed[name] the pairs of
\* a begin_profile(name) and a later end_profile(name), each end_profile
\* paired with the innermost begin_profile still open.  onlyBeginEnd holds as
\* long as begin_profile and end_profile were the only operations called,
\* onlyScopes as long as the only operations were the construction and the
\* destruction of ScopedTimer objects and enable.
Hist_initial ==
    [ before       |-> Profiler_members,
      open         |-> [n \in Names |-> 0],
      completed    |-> [n \in Names |-> 0],
      onlyBeginEnd |-> TRUE,
      onlyScopes   |-> TRUE ]

HistBegin(name) ==
    IF ~prof.m_enabled THEN [hist EXCEPT !.before = prof]
    ELSE [hist EXCEPT !.before = prof, !.open[name] = @ + 1]

HistEnd(name) ==
    IF ~prof.m_enabled \/ hist.open[name] = 0 THEN [hist EXCEPT !.before = prof]
    ELSE [hist EXCEPT !.before = prof, !.open[name] = @ - 1, !.completed[name] = @ + 1]

HistOther == [hist EXCEPT !.before = prof, !.onlyBeginEnd = FALSE]

InitProfilerCalls ==
    /\ prof = Profiler_members
    /\ timers = <<>>
    /\ hist = Hist_initial
    /\ logger = IdleLogger
    /\ thr = IdleThr
    /\ build \in {b \in Builds : ~b.debug /\ ~b.sse42}
    /\ vec = IdleVec
    /\ mat = IdleMat
    /\ other = IdleMat
    /\ tc = IdleTc
    /\ scene = IdleScene
    /\ op = NoOp
    /\ ret = NoRet
    /\ trap = FALSE
    /\ calls = 0

\* What every call of this specification leaves alone.
ProfilerCallFrame ==
    /\ calls' = calls + 1
    /\ UNCHANGED <<build, vec, mat, other, ret, trap, tc, thr, scene, logger>>

\* profiler.begin_profile(name)
DoBeginProfile ==
    \E name \in Names :
        /\ calls < MaxProfCalls
        /\ prof' = Profiler_begin_profile(prof, name)
        /\ hist' = [HistBegin(name) EXCEPT !.onlyScopes = FALSE]
        /\ op' = <<"begin_profile", name>>
        /\ UNCHANGED timers
        /\ ProfilerCallFrame

\* profiler.end_profile(name)
DoEndProfile ==
    \E name \in Names, duration \in Durations :
        /\ calls < MaxProfCalls
        /\ prof' = Profiler_end_profile(prof, name, duration)
        /\ hist' = [HistEnd(name) EXCEPT !.onlyScopes = FALSE]
        /\ op' = <<"end_profile", name>>
        /\ UNCHANGED timers
        /\ ProfilerCallFrame

\* profiler.begin_frame()
DoBeginFrame ==
    /\ calls < MaxProfCalls
    /\ prof' = Profiler_begin_frame(prof)
    /\ hist' = [HistOther EXCEPT !.onlyScopes = FALSE]
    /\ op' = <<"begin_frame", "">>
    /\ UNCHANGED timers
    /\ ProfilerCallFrame

\* profiler.end_frame()
DoEndFrame ==
    \E duration \in Durations :
        /\ calls < MaxProfCalls
        /\ prof' = Profiler_end_frame(prof, duration)
        /\ hist' = [HistOther EXCEPT !.onlyScopes = FALSE]
        /\ op' = <<"end_frame", "">>
        /\ UNCHANGED timers
        /\ ProfilerCallFrame

\* profiler.reset(): the history starts anew.
DoReset ==
    /\ calls < MaxProfCalls
    /\ prof' = Profiler_reset(prof)
    /\ hist' = [Hist_initial EXCEPT !.before = prof, !.onlyBeginEnd = FALSE,
                                    !.onlyScopes = FALSE]
    /\ op' = <<"reset", "">>
    /\ UNCHANGED timers
    /\ ProfilerCallFrame

\* profiler.enable(enabled)
DoEnable ==
    \E enabled \in BOOLEAN :
        /\ calls < MaxProfCalls
        /\ prof' = Profiler_enable(prof, enabled)
        /\ hist' = HistOther
        /\ op' = <<"enable", "">>
        /\ UNCHANGED timers
        /\ ProfilerCallFrame

\* { ScopedTimer timer(name); ...
DoScopedTimer ==
    \E name \in Names :
        /\ calls < MaxProfCalls
        /\ prof' = ScopedTimer_construct(prof, name)
        /\ timers' = Append(timers, ScopedTimer_members(prof, name))
        /\ hist' = [HistBegin(name) EXCEPT !.onlyBeginEnd = FALSE]
        /\ op' = <<"ScopedTimer", name>>
        /\ ProfilerCallFrame

\* ... } : the scope of the ScopedTimer constructed last ends.
DoDestroyScopedTimer ==
    \E duration \in Durations :
        /\ calls < MaxProfCalls
        /\ timers # <<>>
        /\ LET timer == timers[Len(timers)]
           IN  /\ prof' = ScopedTimer_destroy(prof, timer, duration)
               /\ hist' = [(IF timer.m_active THEN HistEnd(timer.m_name) ELSE HistOther)
                              EXCEPT !.onlyBeginEnd = FALSE]
               /\ op' = <<"~ScopedTimer", timer.m_name, timer.m_active>>
        /\ timers' = SubSeq(timers, 1, Len(timers) - 1)
        /\ ProfilerCallFrame

NextProfilerCalls ==
    \/ DoBeginProfile
    \/ DoEndProfile
    \/ DoBeginFrame
    \/ DoEndFrame
    \/ DoReset
    \/ DoEnable
    \/ DoScopedTimer
    \/ DoDestroyScopedTimer

SpecProfilerCalls == InitProfilerCalls /\ [][NextProfilerCalls]_vars

\* C11: while the profiler is enabled, after any sequence of begin_profile
\* and end_profile calls the callCount recorded for each name equals the
\* number of begin_profile(name)/end_profile(name) pairs completed.
C11_CallCountEqualsCompletedPairs ==
    (prof.m_enabled /\ hist.onlyBeginEnd) =>
        \A name \in Names : CallCountOf(prof, name) = hist.completed[name]

\* C12: end_profile(name) called while no begin_profile(name) is outstanding
\* creates no profile entry and leaves the profiles, the active timers, the
\* nesting depth and the frame statistics as they were.
C12_UnmatchedEndChangesNothing ==
    (/\ op[1] = "end_profile"
     /\ hist.before.m_enabled
     /\ op[2] \notin hist.before.m_activeTimers)
        => prof = hist.before

RECURSIVE OpenIntervals(_)
\* The number of intervals begun and not yet ended, of the names in S.
OpenIntervals(S) ==
    IF S = {} THEN 0
    ELSE LET n == CHOOSE x \in S : TRUE
         IN  hist.open[n] + OpenIntervals(S \ {n})

\* C26: under any sequence of begin_profile and end_profile calls, also
\* end_profile calls with no matching begin, the nesting depth equals the
\* number of intervals begun and not yet ended: it never wraps below zero
\* and is 0 after every balanced sequence.
C26_DepthCountsOpenIntervals ==
    hist.onlyBeginEnd =>
        /\ prof.m_currentDepth >= 0
        /\ prof.m_currentDepth = OpenIntervals(Names)

\* C27: a ScopedTimer that started an interval at its construction has, once
\* destroyed, added exactly one sample to its profile and left no active
\* timer behind, whatever enable(false) or enable(true) calls were made
\* during its lifetime.
C27_ScopedTimerRecordsOneSample ==
    (op[1] = "~ScopedTimer" /\ op[3] = TRUE /\ hist.onlyScopes) =>
        /\ CallCountOf(prof, op[2]) = CallCountOf(hist.before, op[2]) + 1
        /\ op[2] \notin prof.m_activeTimers

\* The operations C13 names, called while the profiler was disabled.
CalledWhileDisabled ==
    /\ op[1] \in {"begin_profile", "end_profile", "begin_frame", "end_frame",
                  "ScopedTimer", "~ScopedTimer"}
    /\ ~hist.before.m_enabled

\* C13: begin_profile, end_profile, begin_frame, end_frame and the
\* construction and destruction of a ScopedTimer, called while the profiler
\* is disabled, record nothing: get_sorted_profiles() returns what it
\* returned before, nothing if it returned nothing, and the frame count and
\* the last frame time are what they were.
C13_DisabledRecordsNothing ==
    CalledWhileDisabled =>
        /\ get_sorted_profiles(prof.m_profiles) = get_sorted_profiles(hist.before.m_profiles)
        /\ hist.before.m_profiles = <<>> => get_sorted_profiles(prof.m_profiles) = {<<>>}
        /\ Profiler_get_frame_count(prof) = Profiler_get_frame_count(hist.before)
        /\ Profiler_get_last_frame_time(prof) = Profiler_get_last_frame_time(hist.before)

\* A ScopedTimer that started an interval is destroyed while the profiler is
\* disabled, with a frame already counted.
C13_Witness ==
    /\ CalledWhileDisabled
    /\ op[1] = "~ScopedTimer" /\ op[3] = TRUE
    /\ prof.m_frameCount > 0

\* C14: after reset(), whatever was called before, get_sorted_profiles() is
\* empty, get_frame_count() is 0, get_last_frame_time() is zero, no timer is
\* active and the nesting depth is 0.
C14_ResetClearsEverything ==
    op[1] = "reset" =>
        /\ get_sorted_profiles(prof.m_profiles) = {<<>>}
        /\ Profiler_get_frame_count(prof) = 0
        /\ Profiler_get_last_frame_time(prof) = 0
        /\ prof.m_activeTimers = {}
        /\ prof.m_currentDepth = 0

\* reset() called with an interval begun and not ended, a sample recorded
\* and a frame counted.
C14_Witness ==
    /\ op[1] = "reset"
    /\ hist.before.m_activeTimers # {}
    /\ hist.before.m_currentDepth > 0
    /\ hist.before.m_frameCount > 0
    /\ hist.before.m_lastFrameTime > 0
    /\ hist.before.m_profiles # <<>>

-----------------------------------------------------------------------------
(* Scene: the wrapper of pbrt/ecs/scene.hpp around an entt::registry.  An   *)
(* Entity is an identifier <<index, version>>, or NULL_ENTITY.  m_registry  *)
(* keeps, for every index handed out so far, its current version and        *)
(* whether the entity is alive, and one pool per component type: the value  *)
(* of the component of each entity that has one.  Destroying an entity      *)
(* raises the version of its index, which create() hands out again.         *)

\* Number of entity indices the registry hands out.
MaxEntities == 2

\* Largest version of the identifiers the caller passes in.
MaxVersion == 1

\* Number of Scene calls in a behaviour.
MaxSceneCalls == 5

NULL_ENTITY == <<"null">>

\* The identifiers a caller may hold: of entities alive, destroyed or never
\* created, and the null entity.
Entities == {NULL_ENTITY} \cup ((0..(MaxEntities - 1)) \X (0..MaxVersion))

ComponentTypes == {"TestComponent", "TransformComponent"}

\* The constructor argument of a component, which is its value.
ComponentArgs == {42, 100}

nullopt == <<"nullopt">>

\* std::optional holding a reference to the component of type C of entity.
RefTo(C, entity) == <<"ref", C, entity>>

\* Scene::Scene(): an empty registry.
Scene_members ==
    [ m_registry |-> [ entities |-> <<>>,
                       pools    |-> [C \in ComponentTypes |-> <<>>] ] ]

\* m_registry.valid(entity)
Registry_valid(s, entity) ==
    /\ entity # NULL_ENTITY
    /\ entity[1] < Len(s.m_registry.entities)
    /\ s.m_registry.entities[entity[1] + 1].alive
    /\ s.m_registry.entities[entity[1] + 1].version = entity[2]

\* m_registry.all_of<C>(entity)
Registry_all_of(s, C, entity) == entity \in DOMAIN s.m_registry.pools[C]

\* m_registry.emplace<C>(entity, args...)
Registry_emplace(s, C, entity, arg) ==
    LET pool == s.m_registry.pools[C]
    IN  [s EXCEPT !.m_registry.pools[C] =
            [e \in (DOMAIN pool) \cup {entity} |-> IF e = entity THEN arg ELSE pool[e]]]

\* m_registry.remove<C>(entity)
Registry_remove(s, C, entity) ==
    LET pool == s.m_registry.pools[C]
    IN  [s EXCEPT !.m_registry.pools[C] = [e \in (DOMAIN pool) \ {entity} |-> pool[e]]]

\* The value of the component a reference refers to.
Deref(s, ref) == s.m_registry.pools[ref[2]][ref[3]]

\* Scene::has_component<C>(entity)
Scene_has_component(s, C, entity) ==
    IF ~Registry_valid(s, entity) THEN FALSE
    ELSE Registry_all_of(s, C, entity)

\* Scene::add_component as it would be with emplace_or_replace and without
\* the has_component test.
Scene_add_component_replacing(s, C, entity, arg) ==
    IF ~Registry_valid(s, entity) THEN [scene |-> s, ret |-> nullopt]
    ELSE [scene |-> Registry_emplace(s, C, entity, arg), ret |-> RefTo(C, entity)]

\* Scene::add_component as it would be without the m_registry.valid test.
Scene_add_component_unvalidated(s, C, entity, arg) ==
    IF Scene_has_component(s, C, entity) THEN [scene |-> s, ret |-> nullopt]
    ELSE [scene |-> Registry_emplace(s, C, entity, arg), ret |-> RefTo(C, entity)]

\* Scene::add_component<C>(entity, args...): the scene it leaves and the
\* optional it returns.
Scene_add_component(s, C, entity, arg) ==
    IF ~Registry_valid(s, entity) THEN [scene |-> s, ret |-> nullopt]
    ELSE IF Scene_has_component(s, C, entity) THEN [scene |-> s, ret |-> nullopt]
    ELSE [scene |-> Registry_emplace(s, C, entity, arg), ret |-> RefTo(C, entity)]

\* Scene::get_component<C>(entity)
Scene_get_component(s, C, entity) ==
    IF ~Registry_valid(s, entity) THEN nullopt
    ELSE IF ~Scene_has_component(s, C, entity) THEN nullopt
    ELSE RefTo(C, entity)

\* Scene::remove_component<C>(entity)
Scene_remove_component(s, C, entity) ==
    IF ~Registry_valid(s, entity) THEN s
    ELSE IF ~Scene_has_component(s, C, entity) THEN s
    ELSE Registry_remove(s, C, entity)

\* The identifiers of the indices handed out so far, at their current
\* version.
KnownIdentifiers(s) ==
    { <<i, s.m_registry.entities[i + 1].version>> : i \in 0..(Len(s.m_registry.entities) - 1) }

\* The indices whose entity was destroyed and not created again.
FreeIndices(s) ==
    { i \in 0..(Len(s.m_registry.entities) - 1) : ~s.m_registry.entities[i + 1].alive }

\* Scene::create_entity, m_registry.create(): the identifiers it may return,
\* that of a destroyed entity with the version destroy() gave it, or, when
\* there is none, the next index at version 0.
Scene_create_entity(s) ==
    IF FreeIndices(s) # {}
    THEN { <<i, s.m_registry.entities[i + 1].version>> : i \in FreeIndices(s) }
    ELSE { <<Len(s.m_registry.entities), 0>> }

\* The registry once create() has returned entity.
Created(s, entity) ==
    IF entity[1] < Len(s.m_registry.entities)
    THEN [s EXCEPT !.m_registry.entities[entity[1] + 1].alive = TRUE]
    ELSE [s EXCEPT !.m_registry.entities = Append(@, [version |-> 0, alive |-> TRUE])]

\* What m_registry.destroy does to the entity alive at an index when it is
\* handed an identifier of that index with another version: the pools look
\* the identifier up with its version and remove nothing, the index is
\* released.
Registry_release(s, alive) ==
    [s EXCEPT !.m_registry.entities[alive[1] + 1] =
                  [version |-> @.version + 1, alive |-> FALSE]]

\* Scene::destroy_entity, m_registry.destroy(entity), of a valid entity:
\* its components are removed from every pool and the version of its index
\* is raised.
Scene_destroy_entity(s, entity) ==
    [s EXCEPT !.m_registry.entities[entity[1] + 1] =
                  [version |-> @.version + 1, alive |-> FALSE],
              !.m_registry.pools =
                  [C \in ComponentTypes |->
                      [e \in (DOMAIN s.m_registry.pools[C]) \ {entity} |->
                          s.m_registry.pools[C][e]]]]

\* The entities alive at the index of an identifier that is not valid.
AliveAtIndexOf(s, entity) ==
    { f \in KnownIdentifiers(s) : /\ f # NULL_ENTITY /\ entity # NULL_ENTITY
                                  /\ f[1] = entity[1] /\ Registry_valid(s, f) }

\* m_registry.destroy(entity) of an identifier that is not valid is undefined
\* behaviour of the registry.  The scenes a build may leave: the scene as it
\* was, or the scene with the entity that now lives at the identifier's
\* index destroyed, with its components removed or left in their pools.
\* The build may also stop at the registry's assertion.
DestroyedInvalid(s, entity) ==
    {s} \cup { Scene_destroy_entity(s, f) : f \in AliveAtIndexOf(s, entity) }
        \cup { Registry_release(s, f) : f \in AliveAtIndexOf(s, entity) }

\* view<C>(): the entities it visits.
Scene_view(s, C) == DOMAIN s.m_registry.pools[C]

\* History.  before is the scene as it was when the last call was made;
\* added[C] holds the identifiers whose last add_component<C> or
\* remove_component<C> that took effect was an add_component<C>.
SceneHist_initial ==
    [before |-> Scene_members, added |-> [C \in ComponentTypes |-> {}]]

InitScene ==
    /\ scene = Scene_members
    /\ hist = SceneHist_initial
    /\ logger = IdleLogger
    /\ build \in {b \in Builds : ~b.debug /\ ~b.sse42}
    /\ vec = IdleVec
    /\ mat = IdleMat
    /\ other = IdleMat
    /\ tc = IdleTc
    /\ prof = IdleProf
    /\ thr = IdleThr
    /\ timers = <<>>
    /\ op = NoOp
    /\ ret = NoRet
    /\ trap = FALSE
    /\ calls = 0

\* What every Scene call leaves alone.
SceneCallFrame ==
    /\ calls < MaxSceneCalls
    /\ ~trap
    /\ calls' = calls + 1
    /\ UNCHANGED <<build, vec, mat, other, tc, prof, thr, timers, logger>>

\* scene.create_entity()
CreateEntity ==
    \E entity \in Scene_create_entity(scene) :
        /\ entity[1] < MaxEntities
        /\ scene' = Created(scene, entity)
        /\ ret' = entity
        /\ op' = <<"create_entity">>
        /\ trap' = FALSE
        /\ hist' = [hist EXCEPT !.before = scene]
        /\ SceneCallFrame

\* scene.destroy_entity(entity)
DestroyEntity ==
    \E entity \in Entities :
        /\ IF Registry_valid(scene, entity)
           THEN scene' = Scene_destroy_entity(scene, entity) /\ trap' = FALSE
           ELSE \/ scene' \in DestroyedInvalid(scene, entity) /\ trap' = FALSE
                \/ scene' = scene /\ trap' = TRUE
        /\ ret' = NoRet
        /\ op' = <<"destroy_entity", "", entity>>
        /\ hist' = [hist EXCEPT !.before = scene]
        /\ SceneCallFrame

\* scene.add_component<C>(entity, arg)
AddComponent ==
    \E C \in ComponentTypes, entity \in Entities, arg \in ComponentArgs :
        /\ scene' = Scene_add_component(scene, C, entity, arg).scene
        /\ ret' = Scene_add_component(scene, C, entity, arg).ret
        /\ op' = <<"add_component", C, entity, arg>>
        /\ trap' = FALSE
        /\ hist' = [hist EXCEPT !.before = scene,
                                !.added[C] = IF ret' # nullopt THEN @ \cup {entity} ELSE @]
        /\ SceneCallFrame

\* scene.get_component<C>(entity)
GetComponent ==
    \E C \in ComponentTypes, entity \in Entities :
        /\ ret' = Scene_get_component(scene, C, entity)
        /\ op' = <<"get_component", C, entity>>
        /\ hist' = [hist EXCEPT !.before = scene]
        /\ UNCHANGED <<scene, trap, logger>>
        /\ SceneCallFrame

\* scene.has_component<C>(entity)
HasComponent ==
    \E C \in ComponentTypes, entity \in Entities :
        /\ ret' = Scene_has_component(scene, C, entity)
        /\ op' = <<"has_component", C, entity>>
        /\ hist' = [hist EXCEPT !.before = scene]
        /\ UNCHANGED <<scene, trap, logger>>
        /\ SceneCallFrame

\* scene.remove_component<C>(entity)
RemoveComponent ==
    \E C \in ComponentTypes, entity \in Entities :
        /\ scene' = Scene_remove_component(scene, C, entity)
        /\ ret' = NoRet
        /\ op' = <<"remove_component", C, entity>>
        /\ trap' = FALSE
        /\ hist' = [hist EXCEPT !.before = scene,
                                !.added[C] = IF scene' # scene THEN @ \ {entity} ELSE @]
        /\ SceneCallFrame

NextScene ==
    \/ CreateEntity
    \/ DestroyEntity
    \/ AddComponent
    \/ GetComponent
    \/ HasComponent
    \/ RemoveComponent

SpecScene == InitScene /\ [][NextScene]_vars

\* C15: add_component<C>(e, args) on a valid entity that already has a C
\* returns std::nullopt and leaves the value of that component unchanged.
C15_AddExistingComponentRejected ==
    (/\ op[1] = "add_component"
     /\ Registry_valid(hist.before, op[3])
     /\ Scene_has_component(hist.before, op[2], op[3]))
        => /\ ret = nullopt
           /\ Scene_get_component(scene, op[2], op[3]) = RefTo(op[2], op[3])
           /\ Deref(scene, RefTo(op[2], op[3])) = Deref(hist.before, RefTo(op[2], op[3]))

\* A second add_component<C> with another argument on an entity that has a C.
C15_Witness ==
    /\ op[1] = "add_component"
    /\ Registry_valid(hist.before, op[3])
    /\ Scene_has_component(hist.before, op[2], op[3])
    /\ op[4] # Deref(hist.before, RefTo(op[2], op[3]))

\* The identifiers a caller has come to know.
KnownEntities ==
    Entities \cup UNION { hist.added[C] \cup DOMAIN scene.m_registry.pools[C] :
                            C \in ComponentTypes }

\* C28: after any sequence of create_entity, add_component, remove_component
\* and destroy_entity calls, the entities observed to hold a C, by
\* has_component<C>, by get_component<C> and by view<C>(), are exactly the
\* valid entities whose last add_component<C> or remove_component<C> that
\* took effect was an add_component<C>.
C28_ObservedComponentsAreLastAdded ==
    \A C \in ComponentTypes, e \in KnownEntities :
        LET holds == Registry_valid(scene, e) /\ e \in hist.added[C]
        IN  /\ Scene_has_component(scene, C, e) = holds
            /\ (Scene_get_component(scene, C, e) # nullopt) = holds
            /\ (e \in Scene_view(scene, C)) = holds

\* C29: destroy_entity(e) on an entity that is null, was never created or
\* has already been destroyed returns normally and leaves the scene as it
\* was.
C29_DestroyInvalidEntityIsNoOp ==
    (op[1] = "destroy_entity" /\ ~Registry_valid(hist.before, op[3]))
        => (~trap /\ scene = hist.before)

\* The last call was one of the four component operations on an entity that
\* was not valid.
ComponentCallOnInvalid ==
    /\ op[1] \in {"get_component", "add_component", "has_component", "remove_component"}
    /\ ~Registry_valid(hist.before, op[3])

\* C16: on an entity that is not valid, get_component and add_component
\* return std::nullopt, has_component returns false and remove_component
\* does nothing; none of them changes the scene.
C16_InvalidEntityCallsChangeNothing ==
    ComponentCallOnInvalid =>
        /\ scene = hist.before
        /\ op[1] \in {"get_component", "add_component"} => ret = nullopt
        /\ op[1] = "has_component" => ret = FALSE

\* add_component on an identifier that is not valid while an entity of
\* another version, which has a component, lives at its index.
C16_Witness ==
    /\ ComponentCallOnInvalid
    /\ op[1] = "add_component"
    /\ op[3] # NULL_ENTITY
    /\ \E e \in Entities :
          /\ e # NULL_ENTITY /\ e[1] = op[3][1]
          /\ Registry_valid(scene, e)
          /\ \E C \in ComponentTypes : Scene_has_component(scene, C, e)

-----------------------------------------------------------------------------
(* Element access and the matrix trait, on matrices of every shape up to    *)
(* MaxDim x MaxDim whose element (row, col) holds its own flat index, with  *)
(* row and column arguments inside and outside the matrix.                  *)

AccessInput(T, R, C) ==
    MatOf(T, R, C, [r \in 0..(R - 1), c \in 0..(C - 1) |-> Lit(T, (r * C) + c)])

\* The row and column arguments tried.
Indices == 0..MaxDim

InitAccess ==
    /\ build \in Builds
    /\ \E T \in ElemTypes, R \in 1..MaxDim, C \in 1..MaxDim : mat = AccessInput(T, R, C)
    /\ other = IdleMat
    /\ vec = IdleVec
    /\ ret = NoRet
    /\ op = NoOp
    /\ trap = FALSE
    /\ tc = IdleTc
    /\ prof = IdleProf
    /\ thr = IdleThr
    /\ calls = 0
    /\ scene = IdleScene
    /\ timers = <<>>
    /\ hist = NoHist
    /\ logger = IdleLogger

\* What reading m_data[index(row, col)] gives once no assertion has stopped
\* the call: the element at the flat index, or, for a flat index beyond the
\* array (undefined behaviour), any value or a crash.
ReadElement(row, col) ==
    IF Matrix_index(mat, row, col) < Len(mat.m_data)
    THEN ret' = mat.m_data[Matrix_index(mat, row, col) + 1] /\ trap' = FALSE
    ELSE \/ ret' \in Scalars(mat.T) /\ trap' = FALSE
         \/ ret' = NoRet /\ trap' = TRUE

\* r = m(row, col)
MatCall ==
    \E row \in Indices, col \in Indices :
        /\ op = NoOp
        /\ IF Matrix_call_traps(build, mat, row, col)
           THEN ret' = NoRet /\ trap' = TRUE
           ELSE ReadElement(row, col)
        /\ op' = <<"Matrix::operator()", row, col>>
        /\ UNCHANGED <<build, vec, mat, other, tc, prof, thr, calls, scene, timers, hist, logger>>

\* r = m.at(row, col)
MatAt ==
    \E row \in Indices, col \in Indices :
        /\ op = NoOp
        /\ IF Matrix_at_traps(build, mat, row, col)
           THEN ret' = NoRet /\ trap' = TRUE
           ELSE ReadElement(row, col)
        /\ op' = <<"Matrix::at", row, col>>
        /\ UNCHANGED <<build, vec, mat, other, tc, prof, thr, calls, scene, timers, hist, logger>>

\* r = matrix_traits<T, Rows, Cols> of the matrix's type
MatTraits ==
    /\ op = NoOp
    /\ ret' = matrix_traits(mat.T, mat.Rows, mat.Cols)
    /\ op' = <<"matrix_traits">>
    /\ UNCHANGED <<build, vec, mat, other, trap, tc, prof, thr, calls, scene, timers, hist, logger>>

NextAccess == MatCall \/ MatAt \/ MatTraits

SpecAccess == InitAccess /\ [][NextAccess]_vars

\* The last operation was an element access with a row or a column outside
\* the matrix.
AccessOutOfRange ==
    /\ op[1] \in {"Matrix::operator()", "Matrix::at"}
    /\ (op[2] >= mat.Rows \/ op[3] >= mat.Cols)

\* C17: in a build with assertions enabled, every m(row, col) and every
\* m.at(row, col) with row >= Rows or col >= Cols fails an assertion; none
\* returns an element of the matrix.
C17_OutOfRangeAccessAsserts ==
    (AccessOutOfRange /\ build.debug) => (trap /\ ret = NoRet)

\* An access in a debug build with the row inside and the column outside the
\* matrix, whose flat index is that of an element of the matrix.
C17_Witness ==
    /\ AccessOutOfRange /\ build.debug
    /\ op[2] < mat.Rows
    /\ Matrix_index(mat, op[2], op[3]) < Len(mat.m_data)
    /\ trap

\* C19: for every (T, Rows, Cols) other than 4x4 float and 4x4 double the
\* matrix trait reports no SIMD compatibility, the alignment alignof(T) and
\* the plain-array storage.
C19_OnlyFloat4x4IsSimdCompatible ==
    (op[1] = "matrix_traits" /\ ~IsF32x4x4(mat) /\ ~IsF64x4x4(mat))
        => /\ ~ret.kIsSimdCompatible
           /\ ret.kAlignment = AlignOf(mat.T)
           /\ ret.storage_type = "array"

-----------------------------------------------------------------------------
(* std::sin, std::cos and std::acos.  They are computed in fixed point, on  *)
(* integers that count ten-thousandths, and are accurate to about 10^-4;    *)
(* the result is rounded to a scalar.  Arguments are below 10^4 in          *)
(* magnitude.                                                               *)

\* One in fixed point.
FixOne == Pow10(4)

\* pi / 2 in fixed point.
FixHalfPi == (15708 * FixOne) \div Pow10(4)

\* The fixed-point number nearest to the finite scalar x.
ToFixed(x) ==
    IF x[3] >= -4 THEN x[2] * Pow10(x[3] + 4)
    ELSE IF x[3] < -13 THEN 0
    ELSE ISign(x[2]) * ((IAbs(x[2]) + (Pow10(-4 - x[3]) \div 2)) \div Pow10(-4 - x[3]))

FromFixed(n) == Round(n, -4)

\* Product of two fixed-point numbers that are not negative.
FixMul(a, b) == (a * b) \div FixOne

\* sin of a fixed-point angle in [0, pi/2]: the Taylor series up to x^11.
SinTaylor(X) ==
    LET x2  == FixMul(X, X)
        t3  == FixMul(X, x2) \div 6
        t5  == FixMul(t3, x2) \div 20
        t7  == FixMul(t5, x2) \div 42
        t9  == FixMul(t7, x2) \div 72
        t11 == FixMul(t9, x2) \div 110
    IN  X - t3 + t5 - t7 + t9 - t11

\* sin of any fixed-point angle, by the symmetries of the sine.
FixSin(X) ==
    LET a    == IAbs(X) % (4 * FixHalfPi)
        half == IF a > 2 * FixHalfPi THEN a - (2 * FixHalfPi) ELSE a
        acute == IF half > FixHalfPi THEN (2 * FixHalfPi) - half ELSE half
        sign == ISign(X) * (IF a > 2 * FixHalfPi THEN -1 ELSE 1)
    IN  sign * SinTaylor(acute)

\* std::sin
FSin(x) == IF ~IsFinite(x) THEN NaN ELSE FromFixed(FixSin(ToFixed(x)))

\* std::cos: cos(x) = sin(|x| + pi/2)
FCos(x) == IF ~IsFinite(x) THEN NaN ELSE FromFixed(FixSin(IAbs(ToFixed(x)) + FixHalfPi))

RECURSIVE AsinSearch(_, _, _)
\* The largest angle in lo..hi whose sine is at most y.
AsinSearch(y, lo, hi) ==
    IF lo >= hi THEN lo
    ELSE LET mid == (lo + hi + 1) \div 2
         IN  IF SinTaylor(mid) <= y THEN AsinSearch(y, mid, hi)
                                    ELSE AsinSearch(y, lo, mid - 1)

\* acos of a fixed-point number in [0, 1]: 2 * asin(sqrt((1 - x) / 2)).
FixAcos(X) == 2 * AsinSearch(ISqrt(((FixOne - X) * FixOne) \div 2), 0, FixHalfPi \div 2)

\* std::acos: NaN outside [-1, 1].
FAcos(x) ==
    IF ~IsFinite(x) \/ FGt(FAbs(x), One) THEN NaN
    ELSE IF x[2] >= 0 THEN FromFixed(FixAcos(ToFixed(x)))
    ELSE FromFixed((2 * FixHalfPi) - FixAcos(-ToFixed(x)))

-----------------------------------------------------------------------------
(* Quaternion arithmetic and slerp. *)

\* Quaternion::operator-()
Quaternion_neg(q) == [i \in 1..4 |-> FNeg(q[i])]

\* Quaternion::operator+(Quaternion const&)
Quaternion_add(p, q) == [i \in 1..4 |-> FAdd(p[i], q[i])]

\* Quaternion::operator-(Quaternion const&)
Quaternion_sub(p, q) == [i \in 1..4 |-> FSub(p[i], q[i])]

\* operator*(T const& scalar, Quaternion const& q)
Quaternion_scaled(scalar, q) == [i \in 1..4 |-> FMul(q[i], scalar)]

\* Quaternion::normalized
Quaternion_normalized(q) == Quaternion_normalize(q)

\* dot(Quaternion const&, Quaternion const&)
Quaternion_dot(p, q) ==
    FAdd(FAdd(FAdd(FMul(p[1], q[1]), FMul(p[2], q[2])), FMul(p[3], q[3])), FMul(p[4], q[4]))

\* The bound of slerp's if (dotProduct > T{0.9995}); the literal is kept
\* exactly, since no scalar of the model lies between it and 1.
SlerpThreshold == <<"fin", 9995, -4>>

\* The test as it would be with T{1} as the bound.
slerp_is_nearly_parallel_one(dotProduct) == FGt(dotProduct, One)

\* if (dotProduct > T{0.9995})
slerp_is_nearly_parallel(dotProduct) == FGt(dotProduct, SlerpThreshold)

\* slerp(q1, q2, t): the values of its locals and what it returns.  negated
\* tells that the body of if (dotProduct < T{0}) ran, divisor is sinTheta0
\* when the divisions are reached and NoRet when slerp returns before them.
slerp_run(q1, q2, t) ==
    LET dot0       == Quaternion_dot(q1, q2)
        negated    == FLt(dot0, Zero)
        q2Adjusted == IF negated THEN Quaternion_neg(q2) ELSE q2
        dotProduct == IF negated THEN FNeg(dot0) ELSE dot0
    IN  IF slerp_is_nearly_parallel(dotProduct)
        THEN [ negated |-> negated, q2Adjusted |-> q2Adjusted, dotProduct |-> dotProduct,
               divisor |-> NoRet,
               result  |-> Quaternion_normalized(
                               Quaternion_add(q1, Quaternion_scaled(t, Quaternion_sub(q2Adjusted, q1)))) ]
        ELSE LET theta0    == FAcos(FAbs(dotProduct))
                 theta     == FMul(theta0, t)
                 sinTheta  == FSin(theta)
                 sinTheta0 == FSin(theta0)
                 s0        == FSub(FCos(theta), FDiv(FMul(dotProduct, sinTheta), sinTheta0))
                 s1        == FDiv(sinTheta, sinTheta0)
             IN  [ negated |-> negated, q2Adjusted |-> q2Adjusted, dotProduct |-> dotProduct,
                   divisor |-> sinTheta0,
                   result  |-> Quaternion_add(Quaternion_scaled(s0, q1),
                                              Quaternion_scaled(s1, q2Adjusted)) ]

\* slerp(q1, q2, t)
slerp(q1, q2, t) == slerp_run(q1, q2, t).result

\* Quaternions: of unit length, not of unit length, close to the identity on
\* both sides of the bound, zero, and with a NaN or an infinite component.
SlerpInputs ==
    { Quaternion_identity,
      <<Zero, Dec(6, -1), Zero, Dec(8, -1)>>,
      <<Dec(5, -1), Dec(5, -1), Dec(5, -1), Dec(5, -1)>>,
      <<Dec(999, -3), Dec(447, -4), Zero, Zero>>,
      <<Dec(8, -1), Dec(6, -1), Zero, Zero>>,
      <<Num(1), Num(2), Num(3), Num(4)>>,
      <<Zero, Zero, Zero, Zero>>,
      <<NaN, Zero, Zero, Zero>>,
      <<PosInf, Zero, Zero, Zero>> }

\* Interpolation parameters: the end points, inside and outside [0, 1], and
\* not finite.
SlerpParameters == { Zero, Dec(25, -2), Dec(5, -1), One, Two, FNeg(One), NaN, PosInf }

InitSlerp ==
    /\ build \in Builds
    /\ vec = IdleVec
    /\ mat = IdleMat
    /\ other = IdleMat
    /\ ret = NoRet
    /\ op = NoOp
    /\ trap = FALSE
    /\ tc = IdleTc
    /\ prof = IdleProf
    /\ thr = IdleThr
    /\ calls = 0
    /\ scene = IdleScene
    /\ timers = <<>>
    /\ hist = NoHist
    /\ logger = IdleLogger

\* r = slerp(q1, q2, t), q2 an input or the negation of one; hist keeps the
\* locals of the call.
Slerp ==
    /\ op = NoOp
    /\ \E q1 \in SlerpInputs, p \in SlerpInputs, flip \in BOOLEAN, t \in SlerpParameters :
          \E q2 \in {IF flip THEN Quaternion_neg(p) ELSE p} :
              /\ op' = <<"slerp", q1, q2, t>>
              /\ ret' = slerp(q1, q2, t)
              /\ hist' = [ negated    |-> slerp_run(q1, q2, t).negated,
                           q2Adjusted |-> slerp_run(q1, q2, t).q2Adjusted,
                           dotProduct |-> slerp_run(q1, q2, t).dotProduct,
                           divisor    |-> slerp_run(q1, q2, t).divisor ]
    /\ UNCHANGED <<build, vec, mat, other, trap, tc, prof, thr, calls, scene, timers, logger>>

NextSlerp == Slerp

SpecSlerp == InitSlerp /\ [][NextSlerp]_vars

\* The call divided by sin(theta0).
SlerpDivided == op[1] = "slerp" /\ hist.divisor # NoRet

\* q.length_squared() is 1 to within EPSILON.
IsUnitQuaternion(q) ==
    /\ IsFinite(Quaternion_length_squared(q))
    /\ FLe(FAbs(FSub(Quaternion_length_squared(q), One)), EPSILON)

\* What C20 says of a call, given when it may divide.
SlerpBranches(mayDivide) ==
    op[1] = "slerp" =>
        /\ FLt(Quaternion_dot(op[2], op[3]), Zero) =>
              /\ hist.negated
              /\ hist.q2Adjusted = Quaternion_neg(op[3])
              /\ hist.dotProduct = FNeg(Quaternion_dot(op[2], op[3]))
        /\ SlerpDivided => mayDivide
        /\ SlerpDivided => ~FEq(hist.divisor, Zero)
        /\ (IsUnitQuaternion(op[2]) /\ op[3] = Quaternion_neg(op[2])) => ~SlerpDivided

\* C20 as stated: slerp negates q2 when dot(q1, q2) < 0 and divides by
\* sin(theta0) only when the sign-adjusted dot product is at most 0.9995;
\* slerp(q, -q, t) for a unit q takes the linear-interpolation branch and
\* never divides by zero.
C20_SlerpDividesOnlyBelowThreshold ==
    SlerpBranches(FLe(hist.dotProduct, SlerpThreshold))

\* C20, amended: as stated, except that the division is reached whenever the
\* sign-adjusted dot product is not greater than 0.9995, which it also is
\* not when it is NaN; the divisor is then NaN, never zero.
C20_SlerpDividesUnlessAboveThreshold ==
    SlerpBranches(\/ FLe(hist.dotProduct, SlerpThreshold)
                  \/ IsNaN(hist.dotProduct) /\ IsNaN(hist.divisor))

\* slerp(q, -q, 0.5) for a unit q other than the identity: q2 is negated and
\* the result is q, by the linear-interpolation branch.
C20_Witness ==
    /\ op[1] = "slerp"
    /\ IsUnitQuaternion(op[2]) /\ op[2] # Quaternion_identity
    /\ op[3] = Quaternion_neg(op[2])
    /\ op[4] = Dec(5, -1)
    /\ hist.negated /\ ~SlerpDivided
    /\ ret = op[2]

\* A call that divides, by a sine that is not zero, just below the bound.
C20_WitnessDivision ==
    /\ SlerpDivided
    /\ hist.dotProduct = Dec(999, -3)
    /\ IsFinite(hist.divisor) /\ FGt(hist.divisor, Zero)
    /\ \A i \in 1..4 : IsFinite(ret[i])

-----------------------------------------------------------------------------
(* The extreme components of a vector. *)

RECURSIVE min_element_from(_, _, _)
\* std::min_element over m_data[it..N] with smallest the best so far: it
\* moves on only to an element that is less than the best.
min_element_from(data, it, smallest) ==
    IF it > Len(data) THEN smallest
    ELSE min_element_from(data, it + 1, IF FLt(data[it], data[smallest]) THEN it ELSE smallest)

\* std::min_element(cbegin(), cend()), as a position in 1..N.
min_element(data) == min_element_from(data, 2, 1)

RECURSIVE max_element_last_from(_, _, _)
\* max_element moving on to every element that is not less than the best.
max_element_last_from(data, it, largest) ==
    IF it > Len(data) THEN largest
    ELSE max_element_last_from(data, it + 1, IF ~FLt(data[it], data[largest]) THEN it ELSE largest)

RECURSIVE max_element_from(_, _, _)
\* std::max_element over m_data[it..N] with largest the best so far: it
\* moves on only to an element the best is less than.
max_element_from(data, it, largest) ==
    IF it > Len(data) THEN largest
    ELSE max_element_from(data, it + 1, IF FLt(data[largest], data[it]) THEN it ELSE largest)

\* std::max_element(cbegin(), cend()), as a position in 1..N.
max_element(data) == max_element_from(data, 2, 1)

\* Vector::min_component
Vector_min_component(v) == v.m_data[min_element(v.m_data)]

\* Vector::max_component
Vector_max_component(v) == v.m_data[max_element(v.m_data)]

\* Vector::min_dimension: std::distance from cbegin().
Vector_min_dimension(v) == min_element(v.m_data) - 1

\* Vector::max_dimension
Vector_max_dimension(v) == max_element(v.m_data) - 1

\* Components of the vectors whose extremes are taken: values that tie, and
\* for the floating-point types NaN and an infinity.
ExtremeScalars(T) ==
    IF IsFloatType(T) THEN {Zero, Num(3), Num(-4), NaN, NegInf}
    ELSE IntScalars

ExtremeInputs ==
    UNION { { Vec(T, d) : d \in [1..N -> ExtremeScalars(T)] } : <<T, N>> \in ElemTypes \X (1..MaxN) }

InitExtremes ==
    /\ build \in Builds
    /\ vec \in ExtremeInputs
    /\ mat = IdleMat
    /\ other = IdleMat
    /\ ret = NoRet
    /\ op = NoOp
    /\ trap = FALSE
    /\ tc = IdleTc
    /\ prof = IdleProf
    /\ thr = IdleThr
    /\ calls = 0
    /\ scene = IdleScene
    /\ timers = <<>>
    /\ hist = NoHist
    /\ logger = IdleLogger

\* r = v.min_component()
VecMinComponent ==
    /\ op = NoOp
    /\ ret' = Vector_min_component(vec)
    /\ op' = <<"Vector::min_component">>
    /\ UNCHANGED <<build, vec, mat, other, trap, tc, prof, thr, calls, scene, timers, hist, logger>>

\* r = v.max_component()
VecMaxComponent ==
    /\ op = NoOp
    /\ ret' = Vector_max_component(vec)
    /\ op' = <<"Vector::max_component">>
    /\ UNCHANGED <<build, vec, mat, other, trap, tc, prof, thr, calls, scene, timers, hist, logger>>

\* r = v.min_dimension()
VecMinDimension ==
    /\ op = NoOp
    /\ ret' = Vector_min_dimension(vec)
    /\ op' = <<"Vector::min_dimension">>
    /\ UNCHANGED <<build, vec, mat, other, trap, tc, prof, thr, calls, scene, timers, hist, logger>>

\* r = v.max_dimension()
VecMaxDimension ==
    /\ op = NoOp
    /\ ret' = Vector_max_dimension(vec)
    /\ op' = <<"Vector::max_dimension">>
    /\ UNCHANGED <<build, vec, mat, other, trap, tc, prof, thr, calls, scene, timers, hist, logger>>

NextExtremes == VecMinComponent \/ VecMaxComponent \/ VecMinDimension \/ VecMaxDimension

SpecExtremes == InitExtremes /\ [][NextExtremes]_vars

VecHasNaN == \E i \in 1..vec.N : IsNaN(vec.m_data[i])

\* ret is a dimension of vec, its component is extreme and no dimension
\* before it holds an equal component.  A NaN is neither less nor greater
\* than anything, so extreme is said of the vectors without one.
IsFirstExtreme(extreme, less(_, _)) ==
    /\ ret \in 0..(vec.N - 1)
    /\ vec.m_data[ret + 1] = extreme
    /\ \A j \in 1..ret : ~FEq(vec.m_data[j], extreme)
    /\ ~VecHasNaN => \A j \in 1..vec.N : ~less(vec.m_data[j], extreme)

-----------------------------------------------------------------------------
(* The Logger. *)

\* Largest number of Logger calls explored.
MaxLogCalls == 4

\* enum class LogLevel : u8
LogLevel ==
    [Trace |-> 0, Debug |-> 1, Info |-> 2, Warning |-> 3, Error |-> 4, Critical |-> 5]

\* Callable objects a caller installs.
Callbacks == {<<"callback", "A">>, <<"callback", "B">>}

RECURSIVE std_format(_, _)
\* std::format(format, args...): format is the format string cut into its
\* literal pieces and its "{}" fields, and each field is replaced by the
\* text of the next argument.
std_format(format, args) ==
    IF format = <<>> THEN ""
    ELSE IF Head(format) = "{}"
         THEN ToString(Head(args)) \o std_format(Tail(format), Tail(args))
         ELSE Head(format) \o std_format(Tail(format), args)

\* LogRecord::LogRecord(level, message, location); now is what
\* std::chrono::system_clock::now() returns.
LogRecord(level, message, location, now) ==
    [timestamp |-> now, location |-> location, level |-> level, message |-> message]

\* Logger::set_callback
Logger_set_callback(l, callback) == [l EXCEPT !.m_logCallback = callback]

\* Logger::log calling whatever m_logCallback holds.
Logger_log_unchecked(l, level, location, format, args, now) ==
    [l EXCEPT !.received =
        Append(@, <<l.m_logCallback, LogRecord(level, std_format(format, args), location, now)>>)]

\* Logger::log
Logger_log(l, level, location, format, args, now) ==
    IF l.m_logCallback # nullptr
    THEN [l EXCEPT !.received =
             Append(@, <<l.m_logCallback,
                         LogRecord(level, std_format(format, args), location, now)>>)]
    ELSE l

\* The log calls of the program explored: level, source location (file name
\* and line), and the format string with its arguments.
LogCallSites ==
    { <<LogLevel.Info, <<"logging_tests.cpp", 22>>, <<<<"Test ", "{}">>, <<123>>>>>>,
      <<LogLevel.Error, <<"scene.hpp", 58>>, <<<<"plain">>, <<>>>>>>,
      <<LogLevel.Error, <<"scene.hpp", 85>>, <<<<"{}", " of ", "{}">>, <<-1, 20>>>>>>,
      <<LogLevel.Trace, <<"scene.hpp", 85>>, <<<<"plain">>, <<>>>>>> }

InitLogger ==
    /\ build \in Builds
    /\ vec = IdleVec
    /\ mat = IdleMat
    /\ other = IdleMat
    /\ ret = NoRet
    /\ op = NoOp
    /\ trap = FALSE
    /\ tc = IdleTc
    /\ prof = IdleProf
    /\ thr = IdleThr
    /\ calls = 0
    /\ scene = IdleScene
    /\ timers = <<>>
    /\ hist = [before |-> Logger_members]
    /\ logger = Logger_members

\* Logger::get_instance().set_callback(callback)
SetCallback ==
    /\ calls < MaxLogCalls
    /\ \E callback \in Callbacks \cup {nullptr} :
          /\ logger' = Logger_set_callback(logger, callback)
          /\ op' = <<"Logger::set_callback", callback>>
    /\ hist' = [before |-> logger]
    /\ calls' = calls + 1
    /\ UNCHANGED <<build, vec, mat, other, ret, trap, tc, prof, thr, scene, timers>>

\* Logger::get_instance().log(level, location, format, args...); the clock
\* reads the number of calls made so far.
Log ==
    /\ calls < MaxLogCalls
    /\ \E site \in LogCallSites :
          /\ logger' = Logger_log(logger, site[1], site[2], site[3][1], site[3][2], calls)
          /\ op' = <<"Logger::log", site[1], site[2], site[3]>>
    /\ hist' = [before |-> logger]
    /\ calls' = calls + 1
    /\ UNCHANGED <<build, vec, mat, other, ret, trap, tc, prof, thr, scene, timers>>

NextLogger == SetCallback \/ Log

SpecLogger == InitLogger /\ [][NextLogger]_vars

\* The text std::format makes of the format strings explored.
FormattedText(message) ==
    CASE message[1] = <<"Test ", "{}">> -> "Test 123"
      [] message[1] = <<"plain">> -> "plain"
      [] message[1] = <<"{}", " of ", "{}">> -> "-1 of 20"

\* C22: each Logger::log call invokes the installed callback exactly once,
\* with a LogRecord of the given level, the formatted message and the source
\* location, and invokes nothing when the installed callback is null.
C22_LogInvokesCallbackOnce ==
    op[1] = "Logger::log" =>
        /\ logger.m_logCallback = hist.before.m_logCallback
        /\ IF hist.before.m_logCallback = nullptr
           THEN logger.received = hist.before.received
           ELSE /\ Len(logger.received) = Len(hist.before.received) + 1
                /\ SubSeq(logger.received, 1, Len(hist.before.received)) = hist.before.received
                /\ \E invoked \in {logger.received[Len(logger.received)]} :
                      /\ invoked[1] = hist.before.m_logCallback
                      /\ invoked[2].level = op[2]
                      /\ invoked[2].location = op[3]
                      /\ invoked[2].message = FormattedText(op[4])

\* PBRT_LOG_INFO("Test {}", 123) reaches callback A as "Test 123"; after
\* set_callback(nullptr) a further log call reaches nothing.
C22_Witness ==
    /\ op[1] = "Logger::log"
    /\ logger.m_logCallback = nullptr
    /\ logger.received =
          << <<<<"callback", "A">>, LogRecord(LogLevel.Info, "Test 123", <<"logging_tests.cpp", 22>>, 1)>> >>
    /\ calls = MaxLogCalls


-----------------------------------------------------------------------------
(* Comparison of quaternions: operator==, operator!=, approx_equal
   (pbrt/math/quaternion.hpp) *)

\* approx_equal(other, epsilon) as it would be if it compared the signed
\* differences with epsilon.
Quaternion_approx_equal_signed(p, q, epsilon) ==
    \A i \in 1..4 : FLe(FSub(p[i], q[i]), epsilon)

\* p.approx_equal(q, epsilon): std::abs(p[i] - q[i]) <= epsilon for the four
\* components.
Quaternion_approx_equal(p, q, epsilon) ==
    \A i \in 1..4 : FLe(FAbs(FSub(p[i], q[i])), epsilon)

\* p == q: approx_equal with EPSILON<float> for float and with
\* PRECISION_EPSILON<double> for double.
Quaternion_eq(T, p, q) ==
    IF T = "f32" THEN Quaternion_approx_equal(p, q, EPSILON)
    ELSE Quaternion_approx_equal(p, q, PRECISION_EPSILON)

\* p != q
Quaternion_ne(T, p, q) == ~Quaternion_eq(T, p, q)

\* Quaternions to compare: far apart, one and two EPSILON and one and two
\* PRECISION_EPSILON away from the identity, and with a NaN or an infinite
\* component.
CompareInputs ==
    { Quaternion_identity,
      <<One, EPSILON, Zero, Zero>>,
      <<One, FAdd(EPSILON, EPSILON), Zero, Zero>>,
      <<One, PRECISION_EPSILON, Zero, Zero>>,
      <<One, FAdd(PRECISION_EPSILON, PRECISION_EPSILON), Zero, Zero>>,
      <<Num(1), Num(2), Num(3), Num(4)>>,
      <<NaN, Zero, Zero, Zero>>,
      <<Zero, Zero, Zero, PosInf>> }

\* Three quaternions a, b, c of one element type, kept in hist.q.
InitCompare ==
    /\ build \in Builds
    /\ vec = IdleVec
    /\ mat = IdleMat
    /\ other = IdleMat
    /\ ret = NoRet
    /\ op = NoOp
    /\ trap = FALSE
    /\ tc = IdleTc
    /\ prof = IdleProf
    /\ thr = IdleThr
    /\ calls = 0
    /\ scene = IdleScene
    /\ timers = <<>>
    /\ \E T \in {"f32", "f64"}, a \in CompareInputs, b \in CompareInputs, c \in CompareInputs :
          hist = [T |-> T, q |-> <<a, b, c>>]
    /\ logger = IdleLogger

\* r = (q[i] == q[j])
QuaternionEq ==
    /\ op = NoOp
    /\ \E i \in 1..3, j \in 1..3 :
          /\ op' = <<"Quaternion::operator==", i, j>>
          /\ ret' = Quaternion_eq(hist.T, hist.q[i], hist.q[j])
    /\ UNCHANGED <<build, vec, mat, other, trap, tc, prof, thr, calls, scene, timers, hist, logger>>

\* r = (q[i] != q[j])
QuaternionNe ==
    /\ op = NoOp
    /\ \E i \in 1..3, j \in 1..3 :
          /\ op' = <<"Quaternion::operator!=", i, j>>
          /\ ret' = Quaternion_ne(hist.T, hist.q[i], hist.q[j])
    /\ UNCHANGED <<build, vec, mat, other, trap, tc, prof, thr, calls, scene, timers, hist, logger>>

NextCompare == QuaternionEq \/ QuaternionNe

SpecCompare == InitCompare /\ [][NextCompare]_vars

\* The four components of q are finite.
IsFiniteQuaternion(q) == \A i \in 1..4 : IsFinite(q[i])

\* What a == b returns is what b == a returns.
EqIsSymmetric ==
    op[1] = "Quaternion::operator==" =>
        ret = Quaternion_eq(hist.T, hist.q[op[3]], hist.q[op[2]])

\* What a != b returns is the negation of what a == b returns.
NeIsNegationOfEq ==
    op[1] = "Quaternion::operator!=" =>
        ret = ~Quaternion_eq(hist.T, hist.q[op[2]], hist.q[op[3]])

\* C30 as the specification states it: operator== is reflexive, symmetric and
\* transitive (a == b and b == c imply a == c), and operator!= is its exact
\* negation.
C30_EqIsEquivalence ==
    /\ (op[1] = "Quaternion::operator==" /\ op[2] = op[3]) => ret = TRUE
    /\ EqIsSymmetric
    /\ (op[1] = "Quaternion::operator==" /\ ret = TRUE) =>
          \A k \in 1..3 :
              Quaternion_eq(hist.T, hist.q[op[3]], hist.q[k])
                  => Quaternion_eq(hist.T, hist.q[op[2]], hist.q[k])
    /\ NeIsNegationOfEq

\* C30: operator== is reflexive on the quaternions whose components are all
\* finite and symmetric on all quaternions, and operator!= is its exact
\* negation.  It compares within a tolerance and is not transitive.
C30_EqIsReflexiveOnFiniteAndSymmetric ==
    /\ (op[1] = "Quaternion::operator==" /\ op[2] = op[3]
            /\ IsFiniteQuaternion(hist.q[op[2]])) => ret = TRUE
    /\ EqIsSymmetric
    /\ NeIsNegationOfEq

\* Two float quaternions that differ by EPSILON in one component compare
\* equal.
C30_Witness ==
    /\ op = <<"Quaternion::operator==", 1, 2>>
    /\ hist.T = "f32"
    /\ hist.q[1] = Quaternion_identity
    /\ hist.q[2] = <<One, EPSILON, Zero, Zero>>
    /\ ret = TRUE
=============================================================================
